---- MODULE Spec2Model ----
(***************************************************************************)
(* Model of the cluster audits of Pacemaker's Cluster Test Suite           *)
(* (python/pacemaker/_cts/audits.py): the orchestrator audit_list, the     *)
(* LogAudit, the DiskAudit and PartitionAudit._audit_partition.            *)
(*                                                                         *)
(* Each audit has its own specification (SpecAuditList, SpecLog, SpecDisk, *)
(* SpecPartition) over the one set of variables; the variables of the      *)
(* audits a specification does not run stay at their initial values.       *)
(*                                                                         *)
(* Text is a sequence of one-character strings, so that strip(), split(),  *)
(* int() and the slicing of _trim_string are computed, not assumed.        *)
(***************************************************************************)
EXTENDS Integers, Sequences, FiniteSets, TLC

(***************************************************************************)
(* Bounds of the model                                                     *)
(***************************************************************************)
\* number of cluster nodes: env["nodes"] is the list 1..NumNodes
NumNodes == 3
\* how many times the harness calls audit_list / invokes an audit instance
MaxCalls == 2
\* longest df output line, in whitespace-separated tokens
MaxTokens == 3
\* most lines of a resource listing given to PrimitiveAudit
MaxPrimitives == 1
\* most lines of a resource listing given to GroupAudit
MaxGroupRecords == 4
\* most lines of a constraint listing given to ColocationAudit
MaxConstraints == 2

Nodes == 1..NumNodes

(***************************************************************************)
(* Text helpers: Python str.strip(), str.split(), int()                    *)
(***************************************************************************)
IsSpace(c) == c \in {" ", "\n"}

IsDigit(c) == c \in {"0", "1", "2", "3", "4", "5", "6", "7", "8", "9"}

DigitVal(c) ==
    CASE c = "0" -> 0 [] c = "1" -> 1 [] c = "2" -> 2 [] c = "3" -> 3
      [] c = "4" -> 4 [] c = "5" -> 5 [] c = "6" -> 6 [] c = "7" -> 7
      [] c = "8" -> 8 [] c = "9" -> 9

RECURSIVE LStrip(_)
LStrip(s) == IF s # <<>> /\ IsSpace(Head(s)) THEN LStrip(Tail(s)) ELSE s

RECURSIVE RStrip(_)
RStrip(s) ==
    IF s # <<>> /\ IsSpace(s[Len(s)]) THEN RStrip(SubSeq(s, 1, Len(s) - 1)) ELSE s

\* str.strip(): leading and trailing whitespace removed
Strip(s) == RStrip(LStrip(s))

\* the first token of a text that starts with a non-space character
RECURSIVE FirstToken(_)
FirstToken(s) ==
    IF s = <<>> \/ IsSpace(Head(s)) THEN <<>> ELSE <<Head(s)>> \o FirstToken(Tail(s))

\* str.split(): the maximal runs of non-space characters, in order
RECURSIVE Split(_)
Split(s) ==
    LET t == LStrip(s)
    IN  IF t = <<>> THEN <<>>
        ELSE LET w == FirstToken(t)
             IN  <<w>> \o Split(SubSeq(t, Len(w) + 1, Len(t)))

RECURSIVE DecimalValue(_)
DecimalValue(s) ==
    IF s = <<>> THEN 0
    ELSE 10 * DecimalValue(SubSeq(s, 1, Len(s) - 1)) + DigitVal(s[Len(s)])

\* int(s) succeeds: after stripping whitespace, a non-empty run of digits
\* (the texts of the model carry no sign and no underscore)
IntOk(s) == LET t == Strip(s) IN t # <<>> /\ \A i \in 1..Len(t) : IsDigit(t[i])

\* int(s), where IntOk(s); where not IntOk(s), int(s) raises ValueError
PyInt(s) == DecimalValue(Strip(s))

(***************************************************************************)
(* State                                                                   *)
(***************************************************************************)
VARIABLES
    \* audit_list
    al_applicable,     \* what is_applicable() returns for the instance of each class
    al_pc,             \* "idle", "loop", "returned"
    al_idx,            \* position in the catalog of the audit class being tried
    al_result,         \* the list `result` of audit_list
    \* DiskAudit.__call__
    da_pc,             \* "idle", "loop", "sampled", "returned", "raised"
    da_idx,            \* position in env["nodes"] of the node sampled next
    da_result,         \* the local `result`
    da_dfout,          \* what rsh returned (a list of lines), until the iteration has used it
    da_used,           \* the local `used`: Unbound or Bound
    da_remain,         \* the local `remain`: Unbound or Bound
    da_asked,          \* should_continue() in the last iteration: "no", "continue", "stop"
    da_log,            \* what the last iteration logged: "none", "ERROR", "Warning", "CRIT", "WARN"
    da_exc,            \* the exception that left __call__: "none", "ValueError", "UnboundLocalError"
    \* LogAudit
    have_systemd,      \* env["have_systemd"]
    log_kind,          \* env["log_kind"]: None, or the preferred channel
    la_pc,             \* "idle", "loop", "arm", "emit", "wait", "restart", "sleep", "returned"
    la_calls,          \* invocations of the LogAudit instance so far
    la_attempt,        \* the local `attempt` of __call__
    la_watch_pref,     \* the local `watch_pref` of _test_logging
    la_watch,          \* the keys of the dict `watch`, in insertion order
    la_seen,           \* per channel, the nodes whose test message its watch has seen
    la_emit_idx,       \* position in env["nodes"] of the node that logs next
    la_wait_idx,       \* position in la_watch of the watch waited on next
    la_delays,         \* the arguments of the time.sleep() calls of this invocation
    la_ret,            \* what __call__ returned: "none", "True", "False"
    la_rcs,            \* the rc of each logger command of the running test, by node
    la_errors,         \* the nodes the running test logged "Cannot execute remote command" for
    la_restarts,       \* the nodes each _restart_cluster_logging() of the invocation went over
    \* PartitionAudit._audit_partition
    expected_status,   \* cm.expected_status: per node "up" or "down"
    pa_epoch_out,      \* per node, the output lines its EpochCmd produces
    pa_quorum_out,     \* per node, the output lines its QuorumCmd produces, if it produces any
    pa_pc,             \* "idle", "query", "lowest", "check", "dcs", "returned", "raised"
    pa_idx,            \* position in node_list of the node the running loop is at
    pa_node_epoch,     \* self._node_epoch: per node an int, or NoneInt
    pa_node_quorum,    \* self._node_quorum: per node a text, or NoneText
    pa_lowest_epoch,   \* the local `lowest_epoch`: an int, or NoneInt
    pa_dc_found,       \* the local list `dc_found`
    pa_passed,         \* the local `passed`
    pa_exc,            \* the exception that left _audit_partition, "none" if none
    pa_partition,      \* the argument `partition` of _audit_partition: node names, blank-separated
    \* PartitionAudit.__call__
    pt_partitions,     \* what find_partitions() returned: the local `ccm_partitions`
    partitions_expected, \* cm.partitions_expected
    pt_pc,             \* "idle", "count", "loop", "auditing", "returned", "raised"
    pt_idx,            \* position in ccm_partitions of the partition audited next
    pt_result,         \* the local `result` of __call__
    \* PrimitiveAudit and its subclasses GroupAudit, ColocationAudit: the cluster
    rs_lines,          \* the lines `crm_resource --list-cts` prints
    rs_location,       \* per resource id, the nodes it is active on, as the cluster lists them
    rs_locate_rc,      \* per resource id, the exit status of `crm_resource --locate`
    \* ... the instance
    rs_resources,      \* self._resources
    rs_constraints,    \* self._constraints
    rs_active_nodes,   \* self._active_nodes
    rs_inactive_nodes, \* self._inactive_nodes
    rs_target,         \* self._target: None, or a node
    \* ... __call__
    rs_pc,             \* "idle", "loop", "children", "returned"
    rs_calls,          \* invocations of the instance so far
    rs_result,         \* the local `result`
    rs_quorum,         \* the local `quorum` of PrimitiveAudit.__call__
    rs_idx,            \* position in the outer loop's list of the record looked at next
    rs_active,         \* the local `active` of the last _audit_resource
    rs_rc,             \* what the last _audit_resource returned
    rs_child,          \* GroupAudit: position in self._resources of the child looked at next
    rs_first_match,    \* GroupAudit: the local `first_match`
    rs_group_location, \* GroupAudit: the local `group_location`: None, or a node
    \* CIBAudit: the cluster
    cb_doc,            \* per node, the configuration document its CibQuery prints
    cb_stored,         \* the nodes whose document was stored in the running partition audit
    cb_compared,       \* the crm_diff runs of the running partition audit: <<node0, node>>
    \* ... __call__
    cb_partitions,     \* the local `ccm_partitions`
    cb_pc,             \* "idle", "loop", "nodes", "returned"
    cb_pidx,           \* position in ccm_partitions of the partition audited next
    cb_result,         \* the local `result` of __call__
    \* ... _audit_cib_contents
    cb_passed,         \* the local `passed`
    cb_node0,          \* the local `node0`: None, or a node
    cb_node0_xml,      \* the local `node0_xml`: None, or the node whose file it names
    cb_nidx,           \* position in partition_hosts of the node dealt with next
    cb_rc,             \* the local `rc` of the last crm_diff
    cb_out,            \* the local `result` of the last crm_diff: its output lines
    \* ControllerStateAudit
    cs_probes,         \* the test_node_cm calls made by the running __call__: <<node, rc>>
    cs_pc,             \* "idle", "nodes", "returned"
    cs_calls,          \* __call__ invocations so far
    cs_idx,            \* position in env["nodes"] of the node probed next
    cs_result,         \* the local `result`
    up_are_down,       \* the local `up_are_down`
    down_are_up,       \* the local `down_are_up`
    unstable_list,     \* the local `unstable_list`
    \* FileAudit: the cluster
    fa_cores,          \* per node, the lines `ls | grep core.[0-9]` prints for the two paths
    fa_shm,            \* per node, the lines `ls -al /dev/shm | grep qb-` prints
    fa_changed,        \* some listing changed since the last __call__ was entered
    \* ... the instance
    known,             \* self.known
    \* ... __call__
    fa_pc,             \* "idle", "nodes", "returned"
    fa_calls,          \* __call__ invocations so far
    fa_unchanged,      \* entered again with every listing as the previous invocation found it
    fa_idx,            \* position in env["nodes"] of the node dealt with next
    fa_result,         \* the local `result`
    fa_cmds,           \* the /dev/shm commands of the running __call__: <<node, "ls" | "ps" | "rm">>
    fa_reported,       \* the findings logged by the running __call__: <<node, "core" | "ipc", line>>
    \* the test configuration is_applicable() looks at
    LogAuditDisabled,  \* env["LogAuditDisabled"], as the text of its Python value
    cm_Name,           \* cm["Name"]
    \* ResourceRecover (tests/resourcerecover.py)
    rr_failcount,      \* the cluster: the fail count of the chosen resource on the node
    rr_pc,             \* where ResourceRecover.__call__ stands
    rr_rsc,            \* rsc, the AuditResource _choose_resource returned: <<rsc>>, <<>> for None
    rr_orig_failcount, \* orig_failcount of _fail_resource
    rr_new_failcount,  \* new_failcount of _fail_resource
    rr_queries,        \* each crm_failcount query: its rc, its lines, the count it ran on
    rr_trace,          \* what _fail_resource did to the cluster and the watch, in order
    rr_unmatched,      \* watch.unmatched is not empty
    rr_recovered,      \* recovered, the nodes resource_location() returned
    rr_ret,            \* what _fail_resource returned: None or "0"
    rr_outcome,        \* which of failure(), skipped(), success() __call__ reported
    \* StandbyTest (tests/standbytest.py)
    sb_standby,        \* the cluster: which nodes are in standby mode
    sb_running,        \* the cluster: which nodes have an active resource
    sb_node,           \* node, the argument of StandbyTest.__call__
    sb_pc,             \* where StandbyTest.__call__ stands
    sb_trace,          \* what __call__ asked of the cluster and the watch, with the answers
    sb_outcome         \* which of failure() and success() __call__ reported

alVars == <<al_applicable, al_pc, al_idx, al_result>>

daVars == <<da_pc, da_idx, da_result, da_dfout, da_used, da_remain, da_asked, da_log, da_exc>>

laVars == <<have_systemd, log_kind, la_pc, la_calls, la_attempt, la_watch_pref, la_watch,
            la_seen, la_emit_idx, la_wait_idx, la_delays, la_ret, la_rcs, la_errors,
            la_restarts>>

paVars == <<expected_status, pa_epoch_out, pa_quorum_out, pa_pc, pa_idx, pa_node_epoch,
            pa_node_quorum, pa_lowest_epoch, pa_dc_found, pa_passed, pa_exc, pa_partition>>

ptVars == <<pt_partitions, partitions_expected, pt_pc, pt_idx, pt_result>>

rsVars == <<rs_lines, rs_location, rs_locate_rc, rs_resources, rs_constraints,
            rs_active_nodes, rs_inactive_nodes, rs_target, rs_pc, rs_calls, rs_result,
            rs_quorum, rs_idx, rs_active, rs_rc, rs_child, rs_first_match,
            rs_group_location>>

cbVars == <<cb_doc, cb_stored, cb_compared, cb_partitions, cb_pc, cb_pidx, cb_result,
            cb_passed, cb_node0, cb_node0_xml, cb_nidx, cb_rc, cb_out>>

csVars == <<cs_probes, cs_pc, cs_calls, cs_idx, cs_result, up_are_down, down_are_up,
            unstable_list>>

faVars == <<fa_cores, fa_shm, fa_changed, known, fa_pc, fa_calls, fa_unchanged, fa_idx,
            fa_result, fa_cmds, fa_reported>>

enVars == <<LogAuditDisabled, cm_Name>>

rrVars == <<rr_failcount, rr_pc, rr_rsc, rr_orig_failcount, rr_new_failcount,
           rr_queries, rr_trace, rr_unmatched, rr_recovered, rr_ret, rr_outcome>>

sbVars == <<sb_standby, sb_running, sb_node, sb_pc, sb_trace, sb_outcome>>

vars == <<alVars, daVars, laVars, paVars, ptVars, rsVars, cbVars, csVars, faVars, enVars, rrVars, sbVars>>

\* what the actions of one audit leave alone: the variables of the others
notAL == <<daVars, laVars, paVars, ptVars, rsVars, cbVars, csVars, faVars, enVars, rrVars, sbVars>>

notDA == <<alVars, laVars, paVars, ptVars, rsVars, cbVars, csVars, faVars, enVars, rrVars, sbVars>>

notLA == <<alVars, daVars, paVars, ptVars, rsVars, cbVars, csVars, faVars, enVars, rrVars, sbVars>>

notPA == <<alVars, daVars, laVars, ptVars, rsVars, cbVars, csVars, faVars, enVars, rrVars, sbVars>>

notPT == <<alVars, daVars, laVars, rsVars, cbVars, csVars, faVars, enVars, rrVars, sbVars>>

notRS == <<alVars, daVars, laVars, paVars, ptVars, cbVars, csVars, faVars, enVars, rrVars, sbVars>>

notCB == <<alVars, daVars, laVars, paVars, ptVars, rsVars, csVars, faVars, enVars, rrVars, sbVars>>

\* ControllerStateAudit reads expected_status and writes none of paVars
notCS == <<alVars, daVars, laVars, paVars, ptVars, rsVars, cbVars, faVars, enVars, rrVars, sbVars>>

notFA == <<alVars, daVars, laVars, paVars, ptVars, rsVars, cbVars, csVars, enVars, rrVars, sbVars>>

notEN == <<alVars, daVars, laVars, paVars, ptVars, rsVars, cbVars, csVars, faVars, rrVars, sbVars>>

notRR == <<alVars, daVars, laVars, paVars, ptVars, rsVars, cbVars, csVars, faVars, enVars, sbVars>>

notSB == <<alVars, daVars, laVars, paVars, ptVars, rsVars, cbVars, csVars, faVars, enVars, rrVars>>

(***************************************************************************)
(* audit_list: the orchestrator                                            *)
(***************************************************************************)
\* the catalog, in the order of the source
Catalog ==
    << "DiskAudit", "FileAudit", "LogAudit", "ControllerStateAudit",
       "PartitionAudit", "PrimitiveAudit", "GroupAudit", "CloneAudit",
       "ColocationAudit", "CIBAudit" >>

\* audit_list sees of each audit only the boolean its is_applicable() returns:
\* the call is drawn with every combination of these results
AL_Idle ==
    /\ al_applicable = [i \in 1..Len(Catalog) |-> FALSE]
    /\ al_pc = "idle"
    /\ al_idx = 1
    /\ al_result = <<>>

AL_Init ==
    /\ al_applicable \in [1..Len(Catalog) -> BOOLEAN]
    /\ al_pc = "idle"
    /\ al_idx = 1
    /\ al_result = <<>>

\* the harness calls audit_list(cm): result = []
AL_Call ==
    /\ al_pc = "idle"
    /\ al_pc' = "loop"
    /\ al_idx' = 1
    /\ al_result' = <<>>
    /\ UNCHANGED <<al_applicable, notAL>>

\* a slip: the audit is appended before its applicability is looked at
AL_StepNoFilter ==
    /\ al_pc = "loop"
    /\ al_idx <= Len(Catalog)
    /\ al_result' = Append(al_result, Catalog[al_idx])
    /\ al_idx' = al_idx + 1
    /\ UNCHANGED <<al_applicable, al_pc, notAL>>

\* one iteration of the for loop: a = auditclass(cm); append a if applicable
AL_Step ==
    /\ al_pc = "loop"
    /\ al_idx <= Len(Catalog)
    /\ al_result' = IF al_applicable[al_idx]
                    THEN Append(al_result, Catalog[al_idx])
                    ELSE al_result
    /\ al_idx' = al_idx + 1
    /\ UNCHANGED <<al_applicable, al_pc, notAL>>

\* the loop is over: return result
AL_Return ==
    /\ al_pc = "loop"
    /\ al_idx > Len(Catalog)
    /\ al_pc' = "returned"
    /\ UNCHANGED <<al_applicable, al_idx, al_result, notAL>>

AL_Next == AL_Call \/ AL_Step \/ AL_Return

\* where an audit class stands in the catalog
CatalogPosition(a) == CHOOSE i \in 1..Len(Catalog) : Catalog[i] = a

\* C1: what audit_list returns holds exactly the audits of the catalog whose
\* is_applicable() is true, in catalog order (so each at most once), for
\* every combination of applicability results.
C1_AuditListFilters ==
    al_pc = "returned" =>
        /\ \A i \in 1..Len(Catalog) :
               al_applicable[i] <=> (\E j \in 1..Len(al_result) : al_result[j] = Catalog[i])
        /\ \A j \in 1..Len(al_result) : \E i \in 1..Len(Catalog) : al_result[j] = Catalog[i]
        /\ \A j1, j2 \in 1..Len(al_result) :
               j1 < j2 => CatalogPosition(al_result[j1]) < CatalogPosition(al_result[j2])

\* C1 witness: a call returned some audits of the catalog and left out others,
\* among them one that stands before a returned one
C1_Witness ==
    /\ al_pc = "returned"
    /\ al_result = <<"FileAudit", "PartitionAudit", "CIBAudit">>

(***************************************************************************)
(* DiskAudit                                                               *)
(***************************************************************************)
\* a local variable no assignment has reached yet, and one that holds a token
\* (the tokens `used` and `remain` hold are only ever printed)
Unbound == "unbound"

Bound == "bound"

\* the tokens df lines are made of: the sizes around the thresholds and a
\* token that is no number
DfTokens ==
    { <<"9">>, <<"1", "0">>, <<"1", "0", "0">>,
      <<"9", "0">>, <<"9", "5">>, <<"9", "6">>, <<"x">> }

RECURSIVE JoinTokens(_)
JoinTokens(toks) ==
    IF toks = <<>> THEN <<>>
    ELSE IF Len(toks) = 1 THEN toks[1]
    ELSE toks[1] \o <<" ">> \o JoinTokens(Tail(toks))

\* the line the df pipeline prints: tokens separated by a blank, then a newline
DfLines ==
    { JoinTokens(toks) \o <<"\n">> :
        toks \in UNION { [1..k -> DfTokens] : k \in 0..MaxTokens } }

\* what rsh(node, dfcmd) can return as output: no line at all, or one line
DfOutputs == { <<>> } \cup { <<l>> : l \in DfLines }

\* a slip in the CRIT threshold on the remaining megabytes
IsCritOffByOne(used_percent, remaining_mb) == remaining_mb <= 10 \/ used_percent > 95

IsCrit(used_percent, remaining_mb) == remaining_mb < 10 \/ used_percent > 95

IsWarn(used_percent, remaining_mb) == remaining_mb < 100 \/ used_percent > 90

DA_Idle ==
    /\ da_pc = "idle"
    /\ da_idx = 1
    /\ da_result = TRUE
    /\ da_dfout = <<>>
    /\ da_used = Unbound
    /\ da_remain = Unbound
    /\ da_asked = "no"
    /\ da_log = "none"
    /\ da_exc = "none"

DA_Init == DA_Idle

\* __call__ is entered: result = True, and the loop over env["nodes"] starts
DA_Call ==
    /\ da_pc = "idle"
    /\ da_pc' = "loop"
    /\ da_idx' = 1
    /\ da_result' = TRUE
    /\ UNCHANGED <<da_dfout, da_used, da_remain, da_asked, da_log, da_exc>>
    /\ UNCHANGED notDA

\* the loop takes the next node and rsh(node, dfcmd) returns its output
DA_Rsh ==
    /\ da_pc = "loop"
    /\ da_idx <= NumNodes
    /\ \E out \in DfOutputs : da_dfout' = out
    /\ da_pc' = "sampled"
    /\ da_asked' = "no"
    /\ da_log' = "none"
    /\ UNCHANGED <<da_idx, da_result, da_used, da_remain, da_exc>>
    /\ UNCHANGED notDA

\* the except clause: its log line reads `used` and `remain`
DA_Except(used, remain) ==
    IF used = Unbound \/ remain = Unbound
    THEN /\ da_pc' = "raised"
         /\ da_exc' = "UnboundLocalError"
         /\ da_log' = "none"
         /\ da_idx' = da_idx
    ELSE /\ da_pc' = "loop"
         /\ da_exc' = "none"
         /\ da_log' = "Warning"
         /\ da_idx' = da_idx + 1

\* the else clause of the try: the sample is classified; should_continue()
\* is asked on a CRIT sample and answers `cont`
DA_Classify(used_percent, remaining_mb, cont) ==
    IF IsCrit(used_percent, remaining_mb)
    THEN /\ da_log' = "CRIT"
         /\ da_result' = FALSE
         /\ da_asked' = IF cont THEN "continue" ELSE "stop"
         /\ IF ~cont
            THEN da_pc' = "raised" /\ da_exc' = "ValueError" /\ da_idx' = da_idx
            ELSE da_pc' = "loop" /\ da_exc' = "none" /\ da_idx' = da_idx + 1
    ELSE /\ da_log' = IF IsWarn(used_percent, remaining_mb) THEN "WARN" ELSE "none"
         /\ da_result' = da_result
         /\ da_asked' = "no"
         /\ da_pc' = "loop" /\ da_exc' = "none" /\ da_idx' = da_idx + 1

\* the rest of the iteration, rsh having returned da_dfout
DA_Process ==
    /\ da_pc = "sampled"
    /\ IF da_dfout = <<>>
       THEN \* if not dfout: log and continue
            /\ da_log' = "ERROR"
            /\ da_pc' = "loop" /\ da_exc' = "none" /\ da_idx' = da_idx + 1
            /\ UNCHANGED <<da_result, da_used, da_remain, da_asked>>
       ELSE LET toks == Split(Strip(da_dfout[1]))
            IN  IF Len(toks) # 2
                THEN \* the unpacking raises ValueError and assigns nothing
                     /\ DA_Except(da_used, da_remain)
                     /\ UNCHANGED <<da_result, da_used, da_remain, da_asked>>
                ELSE /\ da_used' = Bound
                     /\ da_remain' = Bound
                     /\ IF ~IntOk(toks[1]) \/ ~IntOk(toks[2])
                        THEN \* int() raises ValueError
                             /\ DA_Except(Bound, Bound)
                             /\ UNCHANGED <<da_result, da_asked>>
                        ELSE \E cont \in BOOLEAN :
                                 DA_Classify(PyInt(toks[1]), PyInt(toks[2]), cont)
    /\ da_dfout' = <<>>
    /\ UNCHANGED notDA

\* the loop is over: return result
DA_Return ==
    /\ da_pc = "loop"
    /\ da_idx > NumNodes
    /\ da_pc' = "returned"
    /\ UNCHANGED <<da_idx, da_result, da_dfout, da_used, da_remain, da_asked, da_log, da_exc>>
    /\ UNCHANGED notDA

DA_Next == DA_Call \/ DA_Rsh \/ DA_Process \/ DA_Return

\* the first line of `out` is exactly two whitespace-separated integers
TwoIntegers(out) ==
    /\ out # <<>>
    /\ LET toks == Split(Strip(out[1]))
       IN  Len(toks) = 2 /\ IntOk(toks[1]) /\ IntOk(toks[2])

\* `out` parses to a CRIT sample: used percent, then remaining megabytes
CritSample(out) ==
    /\ TwoIntegers(out)
    /\ LET toks == Split(Strip(out[1]))
       IN  PyInt(toks[2]) < 10 \/ PyInt(toks[1]) > 95

\* C5 (as claimed): a node whose df line is not exactly two integers never
\* makes DiskAudit raise: the iteration logs a warning, leaves the result
\* unchanged and goes on to the next node.
C5_MalformedDfNeverRaises ==
    [][ (da_pc = "sampled" /\ da_dfout # <<>> /\ ~TwoIntegers(da_dfout))
        => /\ da_pc' = "loop"
           /\ da_exc' = "none"
           /\ da_log' = "Warning"
           /\ da_result' = da_result
           /\ da_idx' = da_idx + 1 ]_vars

\* C6: DiskAudit's result starts True, becomes False exactly in the
\* iterations whose sample parses to CRIT (remaining < 10 or used > 95) and
\* is returned as it stands: it returns False iff some node's sample was
\* CRIT; WARN and OK samples, and nodes without output, leave it alone.
C6_DiskFailsIffCrit ==
    [][ /\ da_pc = "idle" => da_result'
        /\ da_pc = "sampled" => (da_result' = (da_result /\ ~CritSample(da_dfout)))
        /\ da_pc = "loop" => (da_result' = da_result) ]_vars

\* C6 witness: the audit went on after a CRIT sample, took a further sample
\* that was not CRIT, and returned False
C6_Witness == da_pc = "returned" /\ ~da_result /\ da_log = "WARN"

\* C7 (as claimed): DiskAudit raises only on a CRIT sample while
\* should_continue() says stop, and then samples no further node; when it
\* says continue, the CRIT sample does not raise and the loop goes on.
C7_RaisesOnlyOnCritStop ==
    [][ /\ da_pc' = "raised" =>
              \/ da_pc = "raised"
              \/ (da_pc = "sampled" /\ CritSample(da_dfout) /\ da_asked' = "stop")
        /\ (da_pc = "sampled" /\ CritSample(da_dfout) /\ da_asked' = "continue")
              => (da_pc' = "loop" /\ da_idx' = da_idx + 1) ]_vars

(***************************************************************************)
(* LogAudit                                                                *)
(***************************************************************************)
None == "None"

LOCAL_FILE == "local_file"

JOURNAL == "journal"

REMOTE_FILE == "remote_file"

LogKinds == {LOCAL_FILE, JOURNAL, REMOTE_FILE}

max_attempts == 3

\* the base of the delay after a failed test: time.sleep(60 * attempt)
SleepBase == 60

Range(f) == { f[i] : i \in DOMAIN f }

\* a slip: the remote file is tried before the local one
KindsToArmReversed ==
    IF la_watch_pref = None
    THEN IF have_systemd THEN <<REMOTE_FILE, JOURNAL, LOCAL_FILE>>
                         ELSE <<REMOTE_FILE, LOCAL_FILE>>
    ELSE <<la_watch_pref>>

\* a slip: the preferred channel is watched along with all the others
KindsToArmAll ==
    IF have_systemd THEN <<LOCAL_FILE, JOURNAL, REMOTE_FILE>>
                    ELSE <<LOCAL_FILE, REMOTE_FILE>>

\* the channels _test_logging creates a watcher for, in that order: the list
\* `kinds` when no channel is preferred, else the preferred one alone
KindsToArm ==
    IF la_watch_pref = None
    THEN IF have_systemd THEN <<LOCAL_FILE, JOURNAL, REMOTE_FILE>>
                         ELSE <<LOCAL_FILE, REMOTE_FILE>>
    ELSE <<la_watch_pref>>

\* a slip: the message is sent as soon as the first watcher is there
ArmingDoneEarly(watch) == Len(watch) >= 1

\* the loop that creates the watchers is over
ArmingDone(watch) == Len(watch) = Len(KindsToArm)

LA_Idle ==
    /\ have_systemd = FALSE
    /\ log_kind = None
    /\ la_pc = "idle"
    /\ la_calls = 0
    /\ la_attempt = 0
    /\ la_watch_pref = None
    /\ la_watch = <<>>
    /\ la_seen = [k \in LogKinds |-> {}]
    /\ la_emit_idx = 1
    /\ la_wait_idx = 1
    /\ la_delays = <<>>
    /\ la_ret = "none"
    /\ la_rcs = <<>>
    /\ la_errors = {}
    /\ la_restarts = <<>>

LA_Init ==
    /\ have_systemd \in BOOLEAN
    /\ log_kind = None
    /\ la_pc = "idle"
    /\ la_calls = 0
    /\ la_attempt = 0
    /\ la_watch_pref = None
    /\ la_watch = <<>>
    /\ la_seen = [k \in LogKinds |-> {}]
    /\ la_emit_idx = 1
    /\ la_wait_idx = 1
    /\ la_delays = <<>>
    /\ la_ret = "none"
    /\ la_rcs = <<>>
    /\ la_errors = {}
    /\ la_restarts = <<>>

\* __call__ is entered: attempt = 0
LA_Call ==
    /\ la_pc \in {"idle", "returned"}
    /\ la_calls < MaxCalls
    /\ la_calls' = la_calls + 1
    /\ la_pc' = "loop"
    /\ la_attempt' = 0
    /\ la_delays' = <<>>
    /\ la_restarts' = <<>>
    /\ la_ret' = "none"
    /\ UNCHANGED <<have_systemd, log_kind, la_watch_pref, la_watch, la_seen,
                   la_emit_idx, la_wait_idx>>
    /\ UNCHANGED <<la_rcs, la_errors>>
    /\ UNCHANGED notLA

\* the while condition holds on attempt, and _test_logging() is entered:
\* watch = {}, watch_pref = env["log_kind"]
LA_TestLogging ==
    /\ la_pc = "loop"
    /\ la_attempt <= max_attempts
    /\ la_pc' = "arm"
    /\ la_watch_pref' = log_kind
    /\ la_watch' = <<>>
    /\ la_seen' = [k \in LogKinds |-> {}]
    /\ la_emit_idx' = 1
    /\ la_wait_idx' = 1
    /\ la_rcs' = <<>>
    /\ la_errors' = {}
    /\ UNCHANGED <<have_systemd, log_kind, la_calls, la_attempt, la_delays, la_ret>>
    /\ UNCHANGED la_restarts
    /\ UNCHANGED notLA

\* the while condition fails on attempt: "Cluster logging unrecoverable"
LA_GiveUp ==
    /\ la_pc = "loop"
    /\ ~(la_attempt <= max_attempts)
    /\ la_pc' = "returned"
    /\ la_ret' = IF la_attempt > max_attempts THEN "False" ELSE "True"
    /\ UNCHANGED <<have_systemd, log_kind, la_calls, la_attempt, la_watch_pref, la_watch,
                   la_seen, la_emit_idx, la_wait_idx, la_delays>>
    /\ UNCHANGED <<la_rcs, la_errors, la_restarts>>
    /\ UNCHANGED notLA

\* _create_watcher for the next channel: the watcher is created and set
LA_Arm ==
    /\ la_pc = "arm"
    /\ la_watch' = Append(la_watch, KindsToArm[Len(la_watch) + 1])
    /\ la_pc' = IF ArmingDone(la_watch') THEN "emit" ELSE "arm"
    /\ UNCHANGED <<have_systemd, log_kind, la_calls, la_attempt, la_watch_pref, la_seen,
                   la_emit_idx, la_wait_idx, la_delays, la_ret>>
    /\ UNCHANGED <<la_rcs, la_errors, la_restarts>>
    /\ UNCHANGED notLA

\* a slip: the loop over the nodes ends at the first logger command that fails
LA_EmitStopping ==
    /\ la_pc = "emit"
    /\ la_emit_idx <= NumNodes
    /\ \E rc \in {0, 1}, chans \in SUBSET LogKinds :
          /\ rc # 0 => chans = {}
          /\ la_seen' = [k \in LogKinds |->
                            IF k \in chans /\ k \in Range(la_watch)
                            THEN la_seen[k] \cup {la_emit_idx}
                            ELSE la_seen[k]]
          /\ la_rcs' = Append(la_rcs, rc)
          /\ la_errors' = IF rc # 0 THEN la_errors \cup {la_emit_idx} ELSE la_errors
          /\ la_emit_idx' = la_emit_idx + 1
          /\ la_pc' = IF la_emit_idx' > NumNodes \/ rc # 0 THEN "wait" ELSE "emit"
    /\ UNCHANGED <<have_systemd, log_kind, la_calls, la_attempt, la_watch_pref, la_watch,
                   la_wait_idx, la_delays, la_ret>>
    /\ UNCHANGED la_restarts
    /\ UNCHANGED notLA

\* the next node is told to log the test message: rsh returns rc, which is
\* logged as an error if it is not 0, and the message reaches the channels
\* `chans`, where the watches set by now see it
LA_Emit ==
    /\ la_pc = "emit"
    /\ la_emit_idx <= NumNodes
    /\ \E rc \in {0, 1}, chans \in SUBSET LogKinds :
          /\ rc # 0 => chans = {}
          /\ la_seen' = [k \in LogKinds |->
                            IF k \in chans /\ k \in Range(la_watch)
                            THEN la_seen[k] \cup {la_emit_idx}
                            ELSE la_seen[k]]
          /\ la_rcs' = Append(la_rcs, rc)
          /\ la_errors' = IF rc # 0 THEN la_errors \cup {la_emit_idx} ELSE la_errors
    /\ la_emit_idx' = la_emit_idx + 1
    /\ la_pc' = IF la_emit_idx' > NumNodes THEN "wait" ELSE "emit"
    /\ UNCHANGED <<have_systemd, log_kind, la_calls, la_attempt, la_watch_pref, la_watch,
                   la_wait_idx, la_delays, la_ret>>
    /\ UNCHANGED la_restarts
    /\ UNCHANGED notLA

\* look_for_all() on the next watch returns, at its timeout at the latest
LA_Wait ==
    /\ la_pc = "wait"
    /\ la_wait_idx <= Len(la_watch)
    /\ LET k == la_watch[la_wait_idx]
           unmatched == Nodes \ la_seen[k]
       IN  IF unmatched # {}
           THEN \* "not found in ... logs": on to the next watch, or return False
                /\ la_pc' = IF la_wait_idx < Len(la_watch) THEN "wait" ELSE "restart"
                /\ UNCHANGED <<log_kind, la_ret>>
           ELSE \* return 1: the while loop ends, and so does __call__
                /\ log_kind' = IF la_watch_pref = None THEN k ELSE log_kind
                /\ la_pc' = "returned"
                /\ la_ret' = IF la_attempt > max_attempts THEN "False" ELSE "True"
    /\ la_wait_idx' = la_wait_idx + 1
    /\ UNCHANGED <<have_systemd, la_calls, la_attempt, la_watch_pref, la_watch, la_seen,
                   la_emit_idx, la_delays>>
    /\ UNCHANGED <<la_rcs, la_errors, la_restarts>>
    /\ UNCHANGED notLA

\* _restart_cluster_logging(nodes): the nodes its loop goes over, env["nodes"]
\* if none are given.  On each it stops and starts journald if have_systemd,
\* and restarts env["syslogd"] if there is one; a non-zero rc is logged only.
_restart_cluster_logging(nodes) ==
    IF nodes = <<>> THEN [i \in 1..NumNodes |-> i] ELSE nodes

\* the test failed: attempt += 1 and _restart_cluster_logging()
LA_Restart ==
    /\ la_pc = "restart"
    /\ la_attempt' = la_attempt + 1
    /\ la_restarts' = Append(la_restarts, _restart_cluster_logging(<<>>))
    /\ la_pc' = "sleep"
    /\ UNCHANGED <<have_systemd, log_kind, la_calls, la_watch_pref, la_watch, la_seen,
                   la_emit_idx, la_wait_idx, la_delays, la_ret>>
    /\ UNCHANGED <<la_rcs, la_errors>>
    /\ UNCHANGED notLA

\* a slip: the same delay after every failed test
LA_SleepFlat ==
    /\ la_pc = "sleep"
    /\ la_delays' = Append(la_delays, SleepBase)
    /\ la_pc' = "loop"
    /\ UNCHANGED <<have_systemd, log_kind, la_calls, la_attempt, la_watch_pref, la_watch,
                   la_seen, la_emit_idx, la_wait_idx, la_ret>>
    /\ UNCHANGED <<la_rcs, la_errors, la_restarts>>
    /\ UNCHANGED notLA

\* time.sleep(60 * attempt), and back to the while condition
LA_Sleep ==
    /\ la_pc = "sleep"
    /\ la_delays' = Append(la_delays, SleepBase * la_attempt)
    /\ la_pc' = "loop"
    /\ UNCHANGED <<have_systemd, log_kind, la_calls, la_attempt, la_watch_pref, la_watch,
                   la_seen, la_emit_idx, la_wait_idx, la_ret>>
    /\ UNCHANGED <<la_rcs, la_errors, la_restarts>>
    /\ UNCHANGED notLA

LA_Next ==
    \/ LA_Call \/ LA_TestLogging \/ LA_GiveUp \/ LA_Arm \/ LA_Emit \/ LA_Wait
    \/ LA_Restart \/ LA_Sleep

\* the channels a test without preferred channel has to watch, in the order
\* in which it has to wait on them
Candidates ==
    IF have_systemd THEN <<"local_file", "journal", "remote_file">>
                    ELSE <<"local_file", "remote_file">>

\* the watch on channel k matched the pattern of every node
Matched(k) == la_seen[k] = Nodes

\* C2: once a node has been told to log the test message, every watch the
\* test waits on is set (all candidates without preferred channel, else the
\* preferred one), and a step that sets a watch has no emission before it.
C2_ArmedBeforeEmit ==
    /\ [](la_emit_idx > 1 =>
             Range(la_watch) = IF la_watch_pref = None THEN Range(Candidates)
                                                       ELSE {la_watch_pref})
    /\ [][la_watch' # la_watch => la_emit_idx' = 1]_vars

\* C2 witness: all three candidate watches were set, every node has logged,
\* and the waiting has begun
C2_Witness ==
    /\ la_pc = "wait"
    /\ la_watch_pref = None
    /\ Len(la_watch) = 3
    /\ la_emit_idx = NumNodes + 1

\* C3: without preferred channel the watches are waited on in the order of
\* Candidates; the test goes on past the channels that did not match, passes
\* at the first that matched, records it in log_kind and waits on no later
\* one; it fails only when none matched, and log_kind then stays unset.
C3_FirstMatchWins ==
    (la_watch_pref = None /\ la_pc \in {"wait", "restart", "returned"}) =>
        LET waited == la_wait_idx - 1
        IN  /\ waited <= Len(Candidates)
            /\ SubSeq(la_watch, 1, waited) = SubSeq(Candidates, 1, waited)
            /\ \A i \in 1..(waited - 1) : ~Matched(Candidates[i])
            /\ la_pc = "wait" =>
                   /\ \A i \in 1..waited : ~Matched(Candidates[i])
                   /\ log_kind = None
            /\ la_pc = "restart" =>
                   /\ waited = Len(Candidates)
                   /\ \A i \in 1..waited : ~Matched(Candidates[i])
                   /\ log_kind = None
            /\ (la_pc = "returned" /\ la_ret = "True") =>
                   /\ waited >= 1
                   /\ Matched(Candidates[waited])
                   /\ log_kind = Candidates[waited]
            /\ (la_pc = "returned" /\ la_ret = "False") =>
                   /\ \A i \in 1..Len(Candidates) : ~Matched(Candidates[i])
                   /\ log_kind = None

\* C3 witness: only the second channel holds the message; the audit passed
\* and the second channel is the preferred one
C3_Witness ==
    /\ la_pc = "returned"
    /\ la_ret = "True"
    /\ la_watch_pref = None
    /\ have_systemd
    /\ la_seen = [k \in LogKinds |-> IF k = "journal" THEN Nodes ELSE {}]
    /\ log_kind = "journal"
    /\ la_wait_idx = 3

\* C4 (as claimed): an invocation runs at most 3 logging tests, and when it
\* gives up it returns False.
C4_AtMostThreeTests ==
    /\ la_pc \in {"arm", "emit", "wait"} => la_attempt + 1 <= 3
    /\ (la_pc = "returned" /\ la_attempt > 0 /\ la_ret = "False") => Len(la_delays) <= 3

\* a test that began with a preferred channel recorded in log_kind
Preferring == la_pc \in {"arm", "emit", "wait", "restart"} /\ la_watch_pref # None

\* C30: a test that begins with a channel recorded in log_kind sets a watch
\* on that channel alone and waits on it alone; a recorded log_kind is never
\* changed, by a test that passes or by one whose channel never shows the
\* message; log_kind is set only from unset, to the channel whose watch was
\* the first to match; a test in which no channel matched leaves it unset.
C30_PreferredChannelKept ==
    /\ [](Preferring =>
             /\ la_watch_pref = log_kind
             /\ la_watch \in {<<>>, <<log_kind>>}
             /\ la_pc \in {"emit", "wait", "restart"} => la_watch = <<log_kind>>
             /\ la_wait_idx <= 2)
    /\ [][log_kind # None => log_kind' = log_kind]_vars
    /\ [][log_kind' # log_kind =>
             /\ log_kind = None
             /\ la_pc = "wait"
             /\ log_kind' = la_watch[la_wait_idx]
             /\ Matched(log_kind')
             /\ \A i \in 1..(la_wait_idx - 1) : ~Matched(la_watch[i])]_vars
    /\ []((la_pc = "restart" /\ la_watch_pref = None) =>
             /\ log_kind = None
             /\ \A i \in 1..Len(la_watch) : ~Matched(la_watch[i]))

\* C30 witness: in a later invocation the preferred channel did not show the
\* message of every node, the test failed, and log_kind is what it was
C30_Witness ==
    /\ la_calls = 2
    /\ la_pc = "restart"
    /\ la_attempt >= 1
    /\ la_watch_pref = "journal"
    /\ log_kind = "journal"
    /\ la_watch = <<"journal">>
    /\ ~Matched("journal")

\* the steps of an invocation under way: each rsh, each watch wait and each
\* sleep returns
LA_Running ==
    \/ LA_TestLogging \/ LA_GiveUp \/ LA_Arm \/ LA_Emit \/ LA_Wait
    \/ LA_Restart \/ LA_Sleep

\* C31: an invocation under way returns; the step that returns yields True
\* exactly if it is a wait on a watch that matched the pattern of every node,
\* and a test that failed had no armed channel with all patterns matched, so
\* False is returned only after tests that all failed; every logger command
\* with rc # 0 is logged for its node, and the loop goes on to the next node
\* whatever rc was, so that a test waits only after all nodes were told to log
C31_TerminatesWithVerdict ==
    /\ (la_pc \notin {"idle", "returned"}) ~> (la_pc = "returned")
    /\ [][(la_pc' = "returned" /\ la_pc # "returned") =>
             /\ la_ret' \in {"True", "False"}
             /\ la_ret' = "True" <=> (la_pc = "wait" /\ Matched(la_watch[la_wait_idx]))
             /\ la_ret' = "False" => (la_pc = "loop" /\ la_attempt > 0)]_vars
    /\ [](la_pc \in {"restart", "sleep"} => \A i \in 1..Len(la_watch) : ~Matched(la_watch[i]))
    /\ [][la_emit_idx' = la_emit_idx + 1 =>
             /\ Len(la_rcs') = la_emit_idx
             /\ la_emit_idx \in la_errors' <=> la_rcs'[la_emit_idx] # 0
             /\ la_emit_idx < NumNodes => la_pc' = "emit"]_vars
    /\ [](la_pc \in {"wait", "restart"} =>
             /\ Len(la_rcs) = NumNodes
             /\ la_errors = { n \in Nodes : la_rcs[n] # 0 })

\* C31 witness: the logger command failed on the first node alone, the
\* message of every other node reached the local file, and the invocation
\* returned False after its last test
C31_Witness ==
    /\ la_pc = "returned"
    /\ la_ret = "False"
    /\ la_errors = {1}
    /\ Len(la_rcs) = NumNodes
    /\ la_seen["local_file"] = Nodes \ {1}

\* the logging tests of the invocation that have failed so far
FailedTests == Len(la_restarts) + (IF la_pc = "restart" THEN 1 ELSE 0)

NoneInt == -1

NoneText == <<"None">>

\* the truth value Python gives a str-or-None and an int-or-None
TruthyText(t) == t # NoneText /\ t # <<>>

TruthyInt(n) == n # NoneInt /\ n # 0

\* _trim_string: None for an empty value, else the value without its last
\* character if it has more than one
TrimString(avalue) ==
    IF avalue = <<>> THEN NoneText
    ELSE IF Len(avalue) > 1 THEN SubSeq(avalue, 1, Len(avalue) - 1)
    ELSE avalue

\* _trim2int raises ValueError: int() of a trimmed value that is no number
Trim2IntRaises(avalue) == TruthyText(TrimString(avalue)) /\ ~IntOk(TrimString(avalue))

\* _trim2int, where it does not raise
Trim2Int(avalue) ==
    IF TruthyText(TrimString(avalue)) THEN PyInt(TrimString(avalue)) ELSE NoneInt

\* the name of node n in the texts the cluster prints, and the node a name names
NodeDigits == <<"1", "2", "3", "4", "5", "6", "7", "8", "9">>

NodeName(n) == <<NodeDigits[n]>>

NodeOf(name) == DigitVal(name[1])

\* a partition as find_partitions() gives it: the names of its nodes, blank-separated
PartitionText(nodes) == JoinTokens([i \in 1..Len(nodes) |-> NodeName(nodes[i])])

\* the partition audited: node_list = partition.split()
node_list ==
    LET names == Split(pa_partition)
    IN  [i \in 1..Len(names) |-> NodeOf(names[i])]

\* what a node's EpochCmd can print: nothing, or one of these lines
EpochLines ==
    { <<"\n">>, <<"x", "\n">>, <<"5", "\n">>, <<"7", "\n">>,
      <<"1", "0", "\n">>, <<"1", "2", "\n">> }

EpochOutputs == { <<>> } \cup { <<l>> : l \in EpochLines }

\* what QuorumCmd prints in a partition with quorum, and in one without
QuorumLine == <<"1", "\n">>

NoQuorumLine == <<"0", "\n">>

PA_Idle ==
    /\ expected_status = [n \in Nodes |-> "up"]
    /\ pa_epoch_out = [n \in Nodes |-> <<>>]
    /\ pa_quorum_out = [n \in Nodes |-> <<QuorumLine>>]
    /\ pa_pc = "idle"
    /\ pa_idx = 1
    /\ pa_node_epoch = [n \in Nodes |-> NoneInt]
    /\ pa_node_quorum = [n \in Nodes |-> NoneText]
    /\ pa_lowest_epoch = NoneInt
    /\ pa_dc_found = <<>>
    /\ pa_passed = TRUE
    /\ pa_exc = "none"
    /\ pa_partition = PartitionText([i \in 1..NumNodes |-> i])

PA_Init ==
    /\ expected_status \in [Nodes -> {"up", "down"}]
    /\ pa_epoch_out \in [Nodes -> EpochOutputs]
    /\ pa_quorum_out = [n \in Nodes |-> <<QuorumLine>>]
    /\ pa_pc = "idle"
    /\ pa_idx = 1
    /\ pa_node_epoch = [n \in Nodes |-> NoneInt]
    /\ pa_node_quorum = [n \in Nodes |-> NoneText]
    /\ pa_lowest_epoch = NoneInt
    /\ pa_dc_found = <<>>
    /\ pa_passed = TRUE
    /\ pa_exc = "none"
    /\ pa_partition = PartitionText([i \in 1..NumNodes |-> i])

\* _audit_partition is entered: passed = True, dc_found = [], lowest_epoch = None
PA_Call ==
    /\ pa_pc = "idle"
    /\ pa_pc' = "query"
    /\ pa_idx' = 1
    /\ pa_passed' = TRUE
    /\ pa_dc_found' = <<>>
    /\ pa_lowest_epoch' = NoneInt
    /\ UNCHANGED <<expected_status, pa_epoch_out, pa_quorum_out, pa_node_epoch, pa_node_quorum,
                   pa_exc, pa_partition>>
    /\ UNCHANGED notPA

\* the exception `exc` leaves _audit_partition from the first loop, the
\* node's expectation standing as `status`
PA_Raise(node, status, exc) ==
    /\ pa_pc' = "raised"
    /\ pa_exc' = exc
    /\ expected_status' = [expected_status EXCEPT ![node] = status]
    /\ UNCHANGED <<pa_idx, pa_node_epoch, pa_node_quorum, pa_lowest_epoch>>

\* one iteration of the first loop: the node answers StatusCmd, EpochCmd and
\* QuorumCmd (hasStatus, hasQuorum: the answer has a line), the values are
\* trimmed and the lowest epoch is kept
PA_Query ==
    /\ pa_pc = "query"
    /\ pa_idx <= Len(node_list)
    /\ LET node == node_list[pa_idx]
           out == pa_epoch_out[node]
       IN  \E hasStatus \in BOOLEAN, hasQuorum \in BOOLEAN :
             IF ~hasStatus THEN PA_Raise(node, "up", "IndexError(StatusCmd)")
             ELSE IF out = <<>> THEN PA_Raise(node, "up", "IndexError(EpochCmd)")
             ELSE IF ~hasQuorum THEN PA_Raise(node, "up", "IndexError(QuorumCmd)")
             ELSE IF Trim2IntRaises(Strip(out[1])) THEN PA_Raise(node, "up", "ValueError(int)")
             ELSE LET epoch == Trim2Int(Strip(out[1]))
                  IN  /\ pa_node_epoch' = [pa_node_epoch EXCEPT ![node] = epoch]
                      /\ pa_node_quorum' =
                            [pa_node_quorum EXCEPT
                               ![node] = TrimString(Strip(pa_quorum_out[node][1]))]
                      /\ expected_status' =
                            [expected_status EXCEPT
                               ![node] = IF ~TruthyInt(epoch) THEN "down" ELSE "up"]
                      /\ pa_lowest_epoch' =
                            IF TruthyInt(epoch)
                               /\ (pa_lowest_epoch = NoneInt \/ epoch < pa_lowest_epoch)
                            THEN epoch
                            ELSE pa_lowest_epoch
                      /\ pa_idx' = pa_idx + 1
                      /\ pa_pc' = IF pa_idx' > Len(node_list) THEN "lowest" ELSE "query"
                      /\ pa_exc' = "none"
    /\ UNCHANGED <<pa_epoch_out, pa_quorum_out, pa_dc_found, pa_passed, pa_partition>>
    /\ UNCHANGED notPA

\* after the first loop: "Lowest epoch not determined"
PA_Lowest ==
    /\ pa_pc = "lowest"
    /\ pa_passed' = IF ~TruthyInt(pa_lowest_epoch) THEN FALSE ELSE pa_passed
    /\ pa_pc' = "check"
    /\ pa_idx' = 1
    /\ UNCHANGED <<expected_status, pa_epoch_out, pa_quorum_out, pa_node_epoch, pa_node_quorum,
                   pa_lowest_epoch,
                   pa_dc_found, pa_exc, pa_partition>>
    /\ UNCHANGED notPA

\* one iteration of the second loop: is_node_dc() answers is_dc for an up node
PA_Check ==
    /\ pa_pc = "check"
    /\ pa_idx <= Len(node_list)
    /\ LET node == node_list[pa_idx]
       IN  IF expected_status[node] # "up"
           THEN UNCHANGED <<pa_dc_found, pa_passed>>
           ELSE \E is_dc \in BOOLEAN :
                  IF ~is_dc
                  THEN UNCHANGED <<pa_dc_found, pa_passed>>
                  ELSE /\ pa_dc_found' = Append(pa_dc_found, node)
                       /\ pa_passed' =
                            IF pa_node_epoch[node] = pa_lowest_epoch THEN pa_passed
                            ELSE IF ~TruthyInt(pa_node_epoch[node]) THEN pa_passed
                            ELSE IF ~TruthyInt(pa_lowest_epoch) THEN pa_passed
                            ELSE FALSE
    /\ pa_idx' = pa_idx + 1
    /\ pa_pc' = IF pa_idx' > Len(node_list) THEN "dcs" ELSE "check"
    /\ UNCHANGED <<expected_status, pa_epoch_out, pa_quorum_out, pa_node_epoch, pa_node_quorum,
                   pa_lowest_epoch, pa_exc,
                   pa_partition>>
    /\ UNCHANGED notPA

\* a slip: two DCs are let through
TooManyDCsLenient(dc_found) == Len(dc_found) > 2

\* elif len(dc_found) > 1
TooManyDCs(dc_found) == Len(dc_found) > 1

\* after the second loop: no DC is logged, several DCs fail, and passed is returned
PA_Return ==
    /\ pa_pc = "dcs"
    /\ pa_passed' = IF pa_dc_found # <<>> /\ TooManyDCs(pa_dc_found) THEN FALSE ELSE pa_passed
    /\ pa_pc' = "returned"
    /\ UNCHANGED <<expected_status, pa_epoch_out, pa_quorum_out, pa_idx, pa_node_epoch,
                   pa_node_quorum, pa_lowest_epoch,
                   pa_dc_found, pa_exc, pa_partition>>
    /\ UNCHANGED notPA

PA_Next == PA_Call \/ PA_Query \/ PA_Lowest \/ PA_Check \/ PA_Return

\* the epoch query of a node yields no line, an empty line or no number
EpochUnusable(out) ==
    \/ out = <<>>
    \/ Strip(out[1]) = <<>>
    \/ ~IntOk(Strip(out[1]))

\* the epoch a node reports
Reported(n) == PyInt(Strip(pa_epoch_out[n][1]))

\* every node of the partition reports a positive integer epoch
AllReportPositive ==
    \A n \in Range(node_list) : ~EpochUnusable(pa_epoch_out[n]) /\ Reported(n) > 0

\* nothing else is wrong with the partition: at most one DC, not a stale one
NoLeaderFault ==
    /\ Len(pa_dc_found) <= 1
    /\ \A i \in 1..Len(pa_dc_found) : pa_node_epoch[pa_dc_found[i]] = pa_lowest_epoch

\* C8 (as claimed): a node whose epoch query yields no line, an empty line or
\* no number does not make the audit raise and has its expectation set to
\* down; and where some other node produced an epoch and the leaders are
\* in order, the partition passes.
C8_UnusableEpochDemotes ==
    /\ [][ ( /\ pa_pc = "query"
             /\ (pa_pc' # "query" \/ pa_idx' # pa_idx)
             /\ EpochUnusable(pa_epoch_out[node_list[pa_idx]])
             /\ pa_exc' \notin {"IndexError(StatusCmd)", "IndexError(QuorumCmd)"} )
           => ( /\ pa_pc' # "raised"
                /\ expected_status'[node_list[pa_idx]] = "down" ) ]_vars
    /\ []( ( /\ pa_pc = "returned"
             /\ (\E n \in Range(node_list) : EpochUnusable(pa_epoch_out[n]))
             /\ (\E m \in Range(node_list) : TruthyInt(pa_node_epoch[m]))
             /\ NoLeaderFault )
           => pa_passed )

\* C9 (as claimed): with exactly one DC among the up nodes and positive
\* integer epochs reported by all nodes, the partition fails if the DC
\* reports a greater epoch than some other node, and passes if the DC
\* reports the minimum of the reported epochs.
C9_LeaderEpochIsMinimum ==
    (pa_pc = "returned" /\ Len(pa_dc_found) = 1 /\ AllReportPositive) =>
        LET dc == pa_dc_found[1]
        IN  /\ (\E n \in Range(node_list) : Reported(dc) > Reported(n)) => ~pa_passed
            /\ (\A n \in Range(node_list) : Reported(dc) <= Reported(n)) => pa_passed

\* C10: an audit of a partition that found more than one DC among the up
\* nodes returns failure; one that found no DC returns failure only if no
\* node produced an epoch.
C10_DCCount ==
    pa_pc = "returned" =>
        /\ (Len(pa_dc_found) > 1 => ~pa_passed)
        /\ Len(pa_dc_found) = 0 =>
              (pa_passed <=> \E n \in Range(node_list) : TruthyInt(pa_node_epoch[n]))

\* C10 witness: two DCs, both at the lowest epoch, so that nothing but their
\* number is wrong
C10_Witness ==
    /\ pa_pc = "returned"
    /\ Len(pa_dc_found) = 2
    /\ \A i \in 1..2 : pa_node_epoch[pa_dc_found[i]] = pa_lowest_epoch
    /\ ~pa_passed

(***************************************************************************)
(* PartitionAudit.__call__                                                 *)
(***************************************************************************)
\* the nodes from..last in runs that end at the cuts
RECURSIVE Runs(_, _, _)
Runs(from, last, cuts) ==
    IF from > last THEN <<>>
    ELSE LET ends == { c \in cuts \cup {last} : c >= from }
             end == CHOOSE c \in ends : \A d \in ends : c <= d
         IN  <<[i \in 1..(end - from + 1) |-> from + i - 1]>> \o Runs(end + 1, last, cuts)

\* what find_partitions() can return: the nodes 1..last (the others belong to
\* no partition) split into partitions of neighbouring nodes; none if last = 0
Partitionings ==
    { [i \in 1..Len(r) |-> PartitionText(r[i])] :
        r \in { Runs(1, last, cuts) : last \in 0..NumNodes, cuts \in SUBSET (1..(NumNodes - 1)) } }

PT_Idle ==
    /\ pt_partitions = <<>>
    /\ partitions_expected = 1
    /\ pt_pc = "idle"
    /\ pt_idx = 1
    /\ pt_result = TRUE

PT_Init ==
    /\ pt_partitions = <<>>
    /\ partitions_expected \in {1, 2}
    /\ pt_pc = "idle"
    /\ pt_idx = 1
    /\ pt_result = TRUE

\* __call__ is entered: result = True, ccm_partitions = find_partitions();
\* without partitions it returns; else the number of partitions is checked
PT_Call ==
    /\ pt_pc = "idle"
    /\ \E found \in Partitionings :
         /\ pt_partitions' = found
         /\ IF found = <<>>
            THEN pt_pc' = "returned" /\ pt_result' = TRUE
            ELSE /\ pt_pc' = "loop"
                 /\ pt_result' = IF Len(found) # partitions_expected THEN FALSE ELSE TRUE
    /\ pt_idx' = 1
    /\ UNCHANGED <<partitions_expected, paVars, notPT>>

\* the loop over ccm_partitions calls _audit_partition(partition):
\* passed = True, dc_found = [], lowest_epoch = None
PT_AuditPartition ==
    /\ pt_pc = "loop"
    /\ pt_idx <= Len(pt_partitions)
    /\ pt_pc' = "auditing"
    /\ pa_partition' = pt_partitions[pt_idx]
    /\ pa_pc' = "query"
    /\ pa_idx' = 1
    /\ pa_passed' = TRUE
    /\ pa_dc_found' = <<>>
    /\ pa_lowest_epoch' = NoneInt
    /\ UNCHANGED <<expected_status, pa_epoch_out, pa_quorum_out, pa_node_epoch, pa_node_quorum,
                   pa_exc>>
    /\ UNCHANGED <<pt_partitions, partitions_expected, pt_idx, pt_result, notPT>>

\* a slip: the verdict of the partition is dropped
PT_CollectForgiving ==
    /\ pt_pc = "auditing"
    /\ pa_pc = "returned"
    /\ pt_result' = pt_result
    /\ pt_idx' = pt_idx + 1
    /\ pt_pc' = "loop"
    /\ UNCHANGED <<pt_partitions, partitions_expected, paVars, notPT>>

\* _audit_partition returned: if it returned False (== 0), result = False
PT_Collect ==
    /\ pt_pc = "auditing"
    /\ pa_pc = "returned"
    /\ pt_result' = IF ~pa_passed THEN FALSE ELSE pt_result
    /\ pt_idx' = pt_idx + 1
    /\ pt_pc' = "loop"
    /\ UNCHANGED <<pt_partitions, partitions_expected, paVars, notPT>>

\* an exception left _audit_partition: nothing catches it in __call__
PT_Raised ==
    /\ pt_pc = "auditing"
    /\ pa_pc = "raised"
    /\ pt_pc' = "raised"
    /\ UNCHANGED <<pt_partitions, partitions_expected, pt_idx, pt_result, paVars, notPT>>

\* the loop is over: return result
PT_Return ==
    /\ pt_pc = "loop"
    /\ pt_idx > Len(pt_partitions)
    /\ pt_pc' = "returned"
    /\ UNCHANGED <<pt_partitions, partitions_expected, pt_idx, pt_result, paVars, notPT>>

PT_Next ==
    \/ PT_Call \/ PT_AuditPartition \/ PA_Query \/ PA_Lowest \/ PA_Check \/ PA_Return
    \/ PT_Collect \/ PT_Raised \/ PT_Return

\* the up nodes of the partition whose audit has just returned
UpNodes == { n \in Range(node_list) : expected_status[n] = "up" }

\* the partition has exactly one DC among its up nodes, and the epoch that DC
\* reported is the minimum of the epochs its up nodes reported
OneMinimalLeader ==
    /\ Len(pa_dc_found) = 1
    /\ pa_dc_found[1] \in UpNodes
    /\ \A n \in UpNodes : Reported(pa_dc_found[1]) <= Reported(n)

\* C11 (as claimed): PartitionAudit returns pass only if every partition it
\* audited passed, and a partition passes only with exactly one DC among its
\* up nodes whose epoch is the minimum epoch of the partition's up nodes.
C11_PassMeansOneMinimalLeader ==
    /\ []((pt_pc = "auditing" /\ pa_pc = "returned" /\ pa_passed) => OneMinimalLeader)
    /\ [][(pt_pc = "auditing" /\ pa_pc = "returned" /\ ~pa_passed) => ~pt_result']_vars
    /\ [][(pt_pc \in {"loop", "auditing"} /\ ~pt_result) => ~pt_result']_vars

(***************************************************************************)
(* AuditResource, AuditConstraint and PrimitiveAudit._setup, which         *)
(* PrimitiveAudit, GroupAudit and ColocationAudit share                    *)
(***************************************************************************)
\* a Python value with its type: a str is never == an int
PyStr(s) == [py |-> "str", v |-> s]

PyIntVal(n) == [py |-> "int", v |-> n]

PyEq(a, b) == a.py = b.py /\ a.v = b.v

\* x & mask, for a mask of one bit
BitAnd(x, mask) == IF (x \div mask) % 2 = 1 THEN mask ELSE 0

\* the resource ids of the listings
RscNames == <<"r1", "r2", "r3", "r4", "r5", "r6", "r7", "r8", "r9">>

RscIds == Range(RscNames)

\* a line of `crm_resource --list-cts`, by the fields the audits read:
\* "Resource <type> <id> <clone_id> <parent> ... <needs_quorum> <flags> <flags_s>"
ResourceLine(type, id, parent, needs_quorum, flags) ==
    [kind |-> "Resource", type |-> type, id |-> id, parent |-> parent,
     needs_quorum |-> needs_quorum, flags |-> flags, rsc |-> "-", target |-> "-"]

\* "Constraint <type> <id> <rsc> <target> <score> <rsc_role> <target_role>"
ConstraintLine(type, id, rsc, target) ==
    [kind |-> "Constraint", type |-> type, id |-> id, parent |-> "-",
     needs_quorum |-> <<>>, flags |-> <<>>, rsc |-> rsc, target |-> target]

\* a line that starts with neither word
UnknownLine ==
    [kind |-> "Unknown", type |-> "-", id |-> "-", parent |-> "-",
     needs_quorum |-> <<>>, flags |-> <<>>, rsc |-> "-", target |-> "-"]

\* AuditResource.__init__: the fields stay text, but for flags = int(fields[10])
\* and parent, which is None for "NA"
AuditResource(line) ==
    [type |-> line.type, id |-> line.id,
     parent |-> IF line.parent = "NA" THEN None ELSE line.parent,
     needs_quorum |-> PyStr(line.needs_quorum),
     flags |-> PyInt(line.flags)]

\* AuditConstraint.__init__
AuditConstraint(line) ==
    [type |-> line.type, id |-> line.id, rsc |-> line.rsc, target |-> line.target]

\* the properties unique, orphan and managed: an int, true if not 0
unique(resource) == BitAnd(resource.flags, 32)

orphan(resource) == BitAnd(resource.flags, 1)

managed(resource) == BitAnd(resource.flags, 2)

\* where a resource can be active: nowhere, on one node, on two
Locations == { <<>>, <<1>>, <<2>>, <<1, 2>> }

\* the states the cluster can be found in: each of the resources `queried`
\* is active somewhere or nowhere, and its locate query exits with one of rcs
ClusterStates(queried, rcs) ==
    { [location |-> [id \in RscIds |-> IF id \in queried THEN loc[id] ELSE <<>>],
       locate_rc |-> [id \in RscIds |-> IF id \in queried THEN rc[id] ELSE 0]] :
         loc \in [queried -> Locations], rc \in [queried -> rcs] }

\* the cluster as an invocation finds it
ClusterDrawn(queried, rcs) ==
    \E c \in ClusterStates(queried, rcs) :
       rs_location' = c.location /\ rs_locate_rc' = c.locate_rc

\* env["nodes"], and the nodes of it whose expected status is / is not "up"
EnvNodes == [i \in 1..NumNodes |-> i]

UpList == SelectSeq(EnvNodes, LAMBDA n : expected_status[n] = "up")

DownList == SelectSeq(EnvNodes, LAMBDA n : expected_status[n] # "up")

RECURSIVE MapLines(_, _)
MapLines(lines, kind) ==
    IF lines = <<>> THEN <<>>
    ELSE LET rest == MapLines(Tail(lines), kind)
         IN  IF Head(lines).kind # kind THEN rest
             ELSE IF kind = "Resource" THEN <<AuditResource(Head(lines))>> \o rest
             ELSE <<AuditConstraint(Head(lines))>> \o rest

\* self._target after _setup: the first up node, unless a target is there already
SetupTarget ==
    IF rs_target = NoneInt /\ UpList # <<>> THEN UpList[1] ELSE rs_target

\* _setup() returns True
SetupOk == SetupTarget # NoneInt

\* _setup(): the node lists and the records of the listing are appended to
\* what the instance holds
RS_Setup ==
    /\ rs_active_nodes' = rs_active_nodes \o UpList
    /\ rs_inactive_nodes' = rs_inactive_nodes \o DownList
    /\ rs_target' = SetupTarget
    /\ IF ~SetupOk
       THEN UNCHANGED <<rs_resources, rs_constraints>>
       ELSE /\ rs_resources' = rs_resources \o MapLines(rs_lines, "Resource")
            /\ rs_constraints' = rs_constraints \o MapLines(rs_lines, "Constraint")

\* no cluster looked at yet
RS_Unseen ==
    /\ rs_location = [id \in RscIds |-> <<>>]
    /\ rs_locate_rc = [id \in RscIds |-> 0]

\* the instance as __init__ leaves it
RS_Fresh ==
    /\ rs_resources = <<>>
    /\ rs_constraints = <<>>
    /\ rs_active_nodes = <<>>
    /\ rs_inactive_nodes = <<>>
    /\ rs_target = NoneInt
    /\ rs_pc = "idle"
    /\ rs_calls = 0
    /\ rs_result = TRUE
    /\ rs_quorum = FALSE
    /\ rs_idx = 1
    /\ rs_active = <<>>
    /\ rs_rc = TRUE
    /\ rs_child = 1
    /\ rs_first_match = TRUE
    /\ rs_group_location = NoneInt

RS_Idle == rs_lines = <<>> /\ RS_Unseen /\ RS_Fresh

\* cm.expected_status as the harness left it, no PartitionAudit running
PA_Expecting ==
    /\ expected_status \in [Nodes -> {"up", "down"}]
    /\ pa_epoch_out = [n \in Nodes |-> <<>>]
    /\ pa_quorum_out = [n \in Nodes |-> <<QuorumLine>>]
    /\ pa_pc = "idle"
    /\ pa_idx = 1
    /\ pa_node_epoch = [n \in Nodes |-> NoneInt]
    /\ pa_node_quorum = [n \in Nodes |-> NoneText]
    /\ pa_lowest_epoch = NoneInt
    /\ pa_dc_found = <<>>
    /\ pa_passed = TRUE
    /\ pa_exc = "none"
    /\ pa_partition = PartitionText([i \in 1..NumNodes |-> i])

\* ... where the nodes are all expected up or all expected down
PA_ExpectingSame ==
    /\ PA_Expecting
    /\ \A n, m \in Nodes : expected_status[n] = expected_status[m]

(***************************************************************************)
(* PrimitiveAudit                                                          *)
(***************************************************************************)
\* the flags fields: every combination of orphan (1), managed (2), unique (32)
FlagsTexts ==
    { <<"0">>, <<"1">>, <<"2">>, <<"3">>,
      <<"3", "2">>, <<"3", "3">>, <<"3", "4">>, <<"3", "5">> }

\* the lines the listing can hold at position i
PrimitiveLines(i) ==
    { ResourceLine("primitive", RscNames[i], "NA", nq, fl) :
        nq \in { <<"0">>, <<"1">> }, fl \in FlagsTexts }
    \cup { ResourceLine("group", RscNames[i], "NA", <<"0">>, <<"2">>), UnknownLine }

PrimitiveListings ==
    UNION { { l \in [1..k -> UNION { PrimitiveLines(i) : i \in 1..k }] :
                \A i \in 1..k : l[i] \in PrimitiveLines(i) } : k \in 0..MaxPrimitives }

PR_Init == rs_lines \in PrimitiveListings /\ RS_Unseen /\ RS_Fresh

\* the ids PrimitiveAudit asks resource_location() about
PrimitiveIds(lines) ==
    { lines[i].id : i \in { j \in 1..Len(lines) :
                              lines[j].kind = "Resource" /\ lines[j].type = "primitive" } }

\* a slip: the `not` is lost
NoInactiveNodesInverted(inactive_nodes) == inactive_nodes # <<>>

\* `elif not self._inactive_nodes`
NoInactiveNodes(inactive_nodes) == inactive_nodes = <<>>

\* a slip: several locations are looked at before the unique flag is
AuditResourceRcMultiFirst(resource, quorum, active, inactive_nodes) ==
    IF Len(active) = 1
    THEN IF quorum THEN TRUE
         ELSE IF PyEq(resource.needs_quorum, PyIntVal(1)) THEN FALSE
         ELSE TRUE
    ELSE IF managed(resource) = 0 THEN TRUE
    ELSE IF Len(active) > 1 THEN FALSE
    ELSE IF unique(resource) = 0 THEN TRUE
    ELSE IF orphan(resource) # 0 THEN TRUE
    ELSE IF NoInactiveNodes(inactive_nodes) THEN FALSE
    ELSE TRUE

\* _audit_resource: what it returns for a resource active on `active`
AuditResourceRc(resource, quorum, active, inactive_nodes) ==
    IF Len(active) = 1
    THEN IF quorum THEN TRUE
         ELSE IF PyEq(resource.needs_quorum, PyIntVal(1)) THEN FALSE
         ELSE TRUE
    ELSE IF managed(resource) = 0 THEN TRUE
    ELSE IF unique(resource) = 0 THEN TRUE
    ELSE IF Len(active) > 1 THEN FALSE
    ELSE IF orphan(resource) # 0 THEN TRUE
    ELSE IF NoInactiveNodes(inactive_nodes) THEN FALSE
    ELSE TRUE

\* __call__ is entered: result = True, _setup(), quorum = has_quorum(None)
PR_Call ==
    /\ rs_pc \in {"idle", "returned"}
    /\ rs_calls < MaxCalls
    /\ rs_calls' = rs_calls + 1
    /\ ClusterDrawn(PrimitiveIds(rs_lines), {0})
    /\ RS_Setup
    /\ rs_result' = TRUE
    /\ IF ~SetupOk
       THEN rs_pc' = "returned" /\ rs_quorum' = rs_quorum
       ELSE rs_pc' = "loop" /\ rs_quorum' \in BOOLEAN
    /\ rs_idx' = 1
    /\ UNCHANGED <<rs_lines, rs_active, rs_rc, rs_child, rs_first_match, rs_group_location>>
    /\ UNCHANGED notRS

\* one iteration of the loop over self._resources
PR_Audit ==
    /\ rs_pc = "loop"
    /\ rs_idx <= Len(rs_resources)
    /\ LET resource == rs_resources[rs_idx]
           active == rs_location[resource.id]
       IN  IF resource.type = "primitive"
           THEN /\ rs_active' = active
                /\ rs_rc' = AuditResourceRc(resource, rs_quorum, active, rs_inactive_nodes)
                /\ rs_result' = IF ~rs_rc' THEN FALSE ELSE rs_result
           ELSE UNCHANGED <<rs_active, rs_rc, rs_result>>
    /\ rs_idx' = rs_idx + 1
    /\ UNCHANGED <<rs_lines, rs_location, rs_locate_rc, rs_resources, rs_constraints,
                   rs_active_nodes, rs_inactive_nodes, rs_target, rs_pc, rs_calls,
                   rs_quorum, rs_child, rs_first_match, rs_group_location>>
    /\ UNCHANGED notRS

\* the loop is over: return result
PR_Return ==
    /\ rs_pc = "loop"
    /\ rs_idx > Len(rs_resources)
    /\ rs_pc' = "returned"
    /\ UNCHANGED <<rs_lines, rs_location, rs_locate_rc, rs_resources, rs_constraints,
                   rs_active_nodes, rs_inactive_nodes, rs_target, rs_calls, rs_result,
                   rs_quorum, rs_idx, rs_active, rs_rc, rs_child, rs_first_match,
                   rs_group_location>>
    /\ UNCHANGED notRS

PR_Next == PR_Call \/ PR_Audit \/ PR_Return

\* the resource the loop has just dealt with, and whether it was audited
LastAudited == rs_resources[rs_idx - 1]

JustAudited == rs_pc = "loop" /\ rs_idx > 1 /\ LastAudited.type = "primitive"

\* the listing says the resource requires quorum: its needs_quorum field is 1
RequiresQuorum(resource) == resource.needs_quorum.v = <<"1">>

\* C14 (as claimed): a primitive that requires quorum and is active on
\* exactly one node while the cluster lacks quorum fails the audit of that
\* resource and the audit; so an audit that returns pass saw no such resource.
C14_ActiveWithoutQuorumFails ==
    /\ (JustAudited /\ RequiresQuorum(LastAudited) /\ Len(rs_active) = 1 /\ ~rs_quorum)
          => (~rs_rc /\ ~rs_result)
    /\ (rs_pc = "returned" /\ rs_result) =>
          \A i \in 1..Len(rs_resources) :
             ( /\ rs_resources[i].type = "primitive"
               /\ RequiresQuorum(rs_resources[i])
               /\ Len(rs_location[rs_resources[i].id]) = 1 ) => rs_quorum

\* C15 (as claimed): a primitive with the unique and managed flags set fails
\* iff its number of active locations is not 1, none being accepted only
\* when no up node exists.
C15_UniqueManagedFailsIffNotOne ==
    (JustAudited /\ unique(LastAudited) # 0 /\ managed(LastAudited) # 0) =>
        (~rs_rc <=> ( /\ Len(rs_active) # 1
                      /\ ~(Len(rs_active) = 0 /\ UpList = <<>>) ))

\* C15 (amended): a primitive with the unique and managed flags set fails
\* when it is active on more than one node; active nowhere, it fails iff its
\* orphan flag is clear and the audit holds no node as expected down; active
\* on exactly one node, it does not fail while the cluster has quorum.
C15_UniqueManagedVerdict ==
    (JustAudited /\ unique(LastAudited) # 0 /\ managed(LastAudited) # 0) =>
        /\ Len(rs_active) > 1 => ~rs_rc
        /\ Len(rs_active) = 0 =>
              (~rs_rc <=> (orphan(LastAudited) = 0 /\ rs_inactive_nodes = <<>>))
        /\ (Len(rs_active) = 1 /\ rs_quorum) => rs_rc

\* C15 witness: unique, managed, no orphan, active nowhere while a node is
\* expected down and another is up: the resource passes
C15_Witness ==
    /\ JustAudited
    /\ LastAudited.flags = 34
    /\ rs_active = <<>>
    /\ rs_inactive_nodes # <<>>
    /\ UpList # <<>>
    /\ rs_rc

\* C16: a primitive whose unique flag is clear passes when it is active
\* nowhere and when it is active on several nodes, whatever its managed and
\* orphan flags and whether or not the cluster has quorum.
C16_NonUniqueAnyCount ==
    (JustAudited /\ unique(LastAudited) = 0 /\ Len(rs_active) # 1) => rs_rc

\* C16 witness: managed, not unique, active on two nodes without quorum, and
\* all nodes up: passed
C16_Witness ==
    /\ JustAudited
    /\ LastAudited.flags = 2
    /\ Len(rs_active) = 2
    /\ ~rs_quorum
    /\ rs_inactive_nodes = <<>>
    /\ rs_rc
    /\ rs_result

(***************************************************************************)
(* GroupAudit                                                              *)
(***************************************************************************)
\* the lines the listing can hold at position i: a group, a child of the
\* resource r1, a primitive outside any group
GroupLines(i) ==
    { ResourceLine("group", RscNames[i], "NA", <<"0">>, <<"2">>),
      ResourceLine("primitive", RscNames[i], "r1", <<"0">>, <<"2">>),
      ResourceLine("primitive", RscNames[i], "NA", <<"0">>, <<"2">>) }

GroupListings ==
    UNION { { l \in [1..k -> UNION { GroupLines(i) : i \in 1..k }] :
                \A i \in 1..k : l[i] \in GroupLines(i) } : k \in 0..MaxGroupRecords }

\* the ids GroupAudit can ask resource_location() about
ChildIds(lines) ==
    { lines[i].id : i \in { j \in 1..Len(lines) :
                              lines[j].kind = "Resource" /\ lines[j].parent # "NA" } }

\* the cluster stays as it is while the instance is invoked, once or again
GR_Init ==
    /\ rs_lines \in GroupListings
    /\ \E c \in ClusterStates(ChildIds(rs_lines), {0}) :
          rs_location = c.location /\ rs_locate_rc = c.locate_rc
    /\ RS_Fresh

\* a slip: first_match is not looked at, the group follows its last active child
GroupLocationAnyMatch(first_match, nodes, group_location) ==
    IF Len(nodes) > 0 THEN nodes[1] ELSE group_location

\* if first_match and len(nodes) > 0: group_location = nodes[0]
GroupLocationFirstMatch(first_match, nodes, group_location) ==
    IF first_match /\ Len(nodes) > 0 THEN nodes[1] ELSE group_location

\* a slip: a stopped child leaves the expected location as it is
StoppedChildKeeps(group_location) == group_location

\* elif not nodes: group_location = None
StoppedChildLocation(group_location) == NoneInt

\* __call__ is entered: result = True, _setup()
GR_Call ==
    /\ rs_pc \in {"idle", "returned"}
    /\ rs_calls < MaxCalls
    /\ rs_calls' = rs_calls + 1
    /\ RS_Setup
    /\ rs_result' = TRUE
    /\ rs_pc' = IF ~SetupOk THEN "returned" ELSE "loop"
    /\ rs_idx' = 1
    /\ UNCHANGED <<rs_lines, rs_location, rs_locate_rc, rs_quorum, rs_active, rs_rc, rs_child,
                   rs_first_match,
                   rs_group_location>>
    /\ UNCHANGED notRS

\* the outer loop takes the next resource: a group starts its loop over the
\* children with first_match = True, group_location = None
GR_Group ==
    /\ rs_pc = "loop"
    /\ rs_idx <= Len(rs_resources)
    /\ IF rs_resources[rs_idx].type # "group"
       THEN /\ rs_idx' = rs_idx + 1
            /\ UNCHANGED <<rs_pc, rs_child, rs_first_match, rs_group_location>>
       ELSE /\ rs_pc' = "children"
            /\ rs_child' = 1
            /\ rs_first_match' = TRUE
            /\ rs_group_location' = NoneInt
            /\ rs_idx' = rs_idx
    /\ UNCHANGED <<rs_lines, rs_location, rs_locate_rc, rs_resources, rs_constraints,
                   rs_active_nodes, rs_inactive_nodes, rs_target, rs_calls, rs_result,
                   rs_quorum, rs_active, rs_rc>>
    /\ UNCHANGED notRS

\* one iteration of the inner loop
GR_Child ==
    /\ rs_pc = "children"
    /\ rs_child <= Len(rs_resources)
    /\ LET group == rs_resources[rs_idx]
           child == rs_resources[rs_child]
           nodes == rs_location[child.id]
           located == GroupLocationFirstMatch(rs_first_match, nodes, rs_group_location)
       IN  IF child.parent # group.id
           THEN UNCHANGED <<rs_first_match, rs_group_location, rs_result>>
           ELSE /\ rs_first_match' = FALSE
                /\ IF Len(nodes) > 1
                   THEN rs_result' = FALSE /\ rs_group_location' = located
                   ELSE IF nodes = <<>>
                   THEN rs_result' = rs_result
                        /\ rs_group_location' = StoppedChildLocation(located)
                   ELSE IF nodes[1] # located
                   THEN rs_result' = FALSE /\ rs_group_location' = located
                   ELSE rs_result' = rs_result /\ rs_group_location' = located
    /\ rs_child' = rs_child + 1
    /\ UNCHANGED <<rs_lines, rs_location, rs_locate_rc, rs_resources, rs_constraints,
                   rs_active_nodes, rs_inactive_nodes, rs_target, rs_pc, rs_calls,
                   rs_quorum, rs_idx, rs_active, rs_rc>>
    /\ UNCHANGED notRS

\* the inner loop is over: on to the next resource of the outer loop
GR_EndGroup ==
    /\ rs_pc = "children"
    /\ rs_child > Len(rs_resources)
    /\ rs_pc' = "loop"
    /\ rs_idx' = rs_idx + 1
    /\ UNCHANGED <<rs_lines, rs_location, rs_locate_rc, rs_resources, rs_constraints,
                   rs_active_nodes, rs_inactive_nodes, rs_target, rs_calls, rs_result,
                   rs_quorum, rs_active, rs_rc, rs_child, rs_first_match,
                   rs_group_location>>
    /\ UNCHANGED notRS

\* the outer loop is over: return result
GR_Return ==
    /\ rs_pc = "loop"
    /\ rs_idx > Len(rs_resources)
    /\ rs_pc' = "returned"
    /\ UNCHANGED <<rs_lines, rs_location, rs_locate_rc, rs_resources, rs_constraints,
                   rs_active_nodes, rs_inactive_nodes, rs_target, rs_calls, rs_result,
                   rs_quorum, rs_idx, rs_active, rs_rc, rs_child, rs_first_match,
                   rs_group_location>>
    /\ UNCHANGED notRS

GR_Next == GR_Call \/ GR_Group \/ GR_Child \/ GR_EndGroup \/ GR_Return

\* where the children of a group are active, in the order of the listing
ChildLocations(group) ==
    LET children == SelectSeq(rs_resources, LAMBDA c : c.parent = group.id)
    IN  [i \in 1..Len(children) |-> rs_location[children[i].id]]

\* the groups the outer loop is through with
GroupsDone ==
    { rs_resources[i] : i \in { j \in 1..Len(rs_resources) :
                                  j < rs_idx /\ rs_resources[j].type = "group" } }

\* some child is active on more than one node
MultiActive(locs) == \E i \in 1..Len(locs) : Len(locs[i]) > 1

\* two children are each active on a single node, and the nodes differ
Drift(locs) ==
    \E i, j \in 1..Len(locs) :
       Len(locs[i]) = 1 /\ Len(locs[j]) = 1 /\ locs[i][1] # locs[j][1]

\* a child is active on a single node after a child that is active nowhere
ActiveAfterStopped(locs) ==
    \E i, j \in 1..Len(locs) : i < j /\ locs[i] = <<>> /\ Len(locs[j]) = 1

\* C12 (as claimed): partial activation is allowed: an audit whose groups
\* have no child on several nodes and no two children on different single
\* nodes passes, also where an inactive child is followed by an active one.
C12_PartialActivationPasses ==
    ( /\ rs_pc = "returned"
      /\ \A g \in GroupsDone : ~MultiActive(ChildLocations(g)) /\ ~Drift(ChildLocations(g)) )
    => rs_result

\* C12 (amended): a child active on a single node after an inactive child of
\* the same group (in listing order) is by itself a GroupAudit failure: first
\* child inactive and second active on one node fails, and so does active on
\* n, inactive, active on n.
C12_ActiveAfterStoppedFails ==
    (rs_pc \in {"loop", "returned"}
       /\ \E g \in GroupsDone : ActiveAfterStopped(ChildLocations(g)))
    => ~rs_result

\* C12 witness: the first invocation found one group whose three children
\* are active on node 1, nowhere, on node 1, and failed
C12_Witness ==
    /\ rs_pc = "returned"
    /\ rs_calls = 1
    /\ Len(rs_resources) = 4
    /\ rs_resources[1].type = "group"
    /\ ChildLocations(rs_resources[1]) = << <<1>>, <<>>, <<1>> >>
    /\ ~rs_result

\* C13: GroupAudit fails whenever some child of a group is active on more
\* than one node or two children of a group are each active on a single node
\* and the nodes differ; it passes when all children of every group are
\* active on one and the same node.
C13_GroupPlacement ==
    /\ (rs_pc \in {"loop", "returned"}
          /\ \E g \in GroupsDone : MultiActive(ChildLocations(g)) \/ Drift(ChildLocations(g)))
       => ~rs_result
    /\ ( /\ rs_pc = "returned"
         /\ \A g \in GroupsDone :
               LET locs == ChildLocations(g)
               IN  \A i, j \in 1..Len(locs) : Len(locs[i]) = 1 /\ locs[i] = locs[j] )
       => rs_result

\* C13 witness: a group and its three children, all active on node 2: passed
C13_Witness ==
    /\ rs_pc = "returned"
    /\ rs_result
    /\ rs_calls = 1
    /\ Len(rs_resources) = 4
    /\ rs_resources[1].type = "group"
    /\ ChildLocations(rs_resources[1]) = << <<2>>, <<2>>, <<2>> >>

(***************************************************************************)
(* ColocationAudit                                                         *)
(***************************************************************************)
\* the lines the listing can hold at position i: a constraint of kind
\* rsc_colocation or of another kind, between the resources r1 and r2
ColocationLines(i) ==
    { ConstraintLine(type, RscNames[i], rsc, target) :
        type \in {"rsc_colocation", "rsc_order"}, rsc \in {"r1", "r2"}, target \in {"r1", "r2"} }

ColocationListings ==
    UNION { { l \in [1..k -> UNION { ColocationLines(i) : i \in 1..k }] :
                \A i \in 1..k : l[i] \in ColocationLines(i) } : k \in 0..MaxConstraints }

CO_Init == rs_lines \in ColocationListings /\ RS_Unseen /\ RS_Fresh

\* the ids ColocationAudit can ask crm_resource --locate about
ColocatedIds(lines) ==
    UNION { {lines[i].rsc, lines[i].target} :
              i \in { j \in 1..Len(lines) :
                        lines[j].kind = "Constraint" /\ lines[j].type = "rsc_colocation" } }

\* what `crm_resource --locate -r <resource> -Q` prints: a line per node
LocateLines(resource) ==
    [i \in 1..Len(rs_location[resource]) |-> NodeName(rs_location[resource][i]) \o <<"\n">>]

\* _crm_location: the first field of every line, or nothing if rc is not 0
CrmLocation(resource) ==
    IF rs_locate_rc[resource] = 0
    THEN [i \in 1..Len(LocateLines(resource)) |-> Split(LocateLines(resource)[i])[1]]
    ELSE <<>>

\* a slip: one node of the source in the target is enough
ColocatedSomeNode(source, target) ==
    source = <<>> \/ \E i \in 1..Len(source) : source[i] \in Range(target)

\* no node of source takes the `node not in target` branch
Colocated(source, target) == \A i \in 1..Len(source) : source[i] \in Range(target)

\* __call__ is entered: result = True, _setup()
CO_Call ==
    /\ rs_pc \in {"idle", "returned"}
    /\ rs_calls < MaxCalls
    /\ rs_calls' = rs_calls + 1
    /\ ClusterDrawn(ColocatedIds(rs_lines), {0, 1})
    /\ RS_Setup
    /\ rs_result' = TRUE
    /\ rs_pc' = IF ~SetupOk THEN "returned" ELSE "loop"
    /\ rs_idx' = 1
    /\ UNCHANGED <<rs_lines, rs_quorum, rs_active, rs_rc, rs_child, rs_first_match,
                   rs_group_location>>
    /\ UNCHANGED notRS

\* one iteration of the loop over self._constraints, the loop over the nodes
\* of source included
CO_Check ==
    /\ rs_pc = "loop"
    /\ rs_idx <= Len(rs_constraints)
    /\ LET coloc == rs_constraints[rs_idx]
       IN  IF coloc.type # "rsc_colocation"
           THEN rs_result' = rs_result
           ELSE LET source == CrmLocation(coloc.rsc)
                    target == CrmLocation(coloc.target)
                IN  rs_result' = IF source # <<>> /\ ~Colocated(source, target)
                                 THEN FALSE
                                 ELSE rs_result
    /\ rs_idx' = rs_idx + 1
    /\ UNCHANGED <<rs_lines, rs_location, rs_locate_rc, rs_resources, rs_constraints,
                   rs_active_nodes, rs_inactive_nodes, rs_target, rs_pc, rs_calls,
                   rs_quorum, rs_active, rs_rc, rs_child, rs_first_match,
                   rs_group_location>>
    /\ UNCHANGED notRS

\* the loop is over: return result
CO_Return ==
    /\ rs_pc = "loop"
    /\ rs_idx > Len(rs_constraints)
    /\ rs_pc' = "returned"
    /\ UNCHANGED <<rs_lines, rs_location, rs_locate_rc, rs_resources, rs_constraints,
                   rs_active_nodes, rs_inactive_nodes, rs_target, rs_calls, rs_result,
                   rs_quorum, rs_idx, rs_active, rs_rc, rs_child, rs_first_match,
                   rs_group_location>>
    /\ UNCHANGED notRS

CO_Next == CO_Call \/ CO_Check \/ CO_Return

\* the nodes a resource was located on by this invocation
LocatedOn(resource) ==
    IF rs_locate_rc[resource] = 0
    THEN { NodeName(n) : n \in Range(rs_location[resource]) }
    ELSE {}

\* C17: ColocationAudit passes iff, for every constraint of kind
\* rsc_colocation it holds, the nodes the source was located on are all among
\* the nodes the target was located on; a source located nowhere and a
\* constraint of another kind never make it fail.
C17_ColocationVerdict ==
    rs_pc = "returned" =>
        (rs_result <=>
            \A i \in 1..Len(rs_constraints) :
               rs_constraints[i].type = "rsc_colocation" =>
                  LocatedOn(rs_constraints[i].rsc) \subseteq LocatedOn(rs_constraints[i].target))

\* C17 witness: r1 on node 1 is colocated with r2 on nodes 1 and 2, and a
\* constraint of another kind has r2 before r1: passed
C17_Witness ==
    /\ rs_pc = "returned"
    /\ rs_calls = 1
    /\ rs_result
    /\ Len(rs_constraints) = 2
    /\ rs_constraints[1].type = "rsc_colocation"
    /\ rs_constraints[1].rsc = "r1" /\ rs_constraints[1].target = "r2"
    /\ rs_constraints[2].type = "rsc_order"
    /\ rs_constraints[2].rsc = "r2" /\ rs_constraints[2].target = "r1"
    /\ LocatedOn("r1") = {NodeName(1)}
    /\ LocatedOn("r2") = {NodeName(1), NodeName(2)}

(***************************************************************************)
(* CIBAudit                                                                *)
(***************************************************************************)
\* the pattern of re.search("<diff/>", line)
DiffMarker == <<"<", "d", "i", "f", "f", "/", ">">>

\* re.search(pattern, line), for a pattern of plain characters: the pattern
\* occurs somewhere in the line
Search(pattern, line) ==
    \E i \in 1..(Len(line) - Len(pattern) + 1) :
       SubSeq(line, i, i + Len(pattern) - 1) = pattern

\* the lines crm_diff prints in the model: the marker alone, the marker
\* indented, and a line of a real diff
MarkerLine == DiffMarker \o <<"\n">>

IndentedMarkerLine == <<" ">> \o DiffMarker \o <<"\n">>

ChangeLine == <<"<", "d", "i", "f", "f", ">", "\n">>

DiffLines == { MarkerLine, IndentedMarkerLine, ChangeLine }

DiffOutputs == UNION { [1..k -> DiffLines] : k \in 0..2 }

\* what crm_diff can print for two documents: for equal ones nothing or the
\* marker, else anything
DiffOutputsFor(original, new) ==
    IF original = new THEN { <<>>, <<MarkerLine>> } ELSE DiffOutputs

\* a slip: only the marker line itself is let through
IsMarkerLine(line) == line = MarkerLine

\* the line is let through: not `not re.search("<diff/>", line)`
IgnoredLine(line) == Search(DiffMarker, line)

\* _store_remote_cib(node, target), given the exit status of the CibQuery
\* command on the node and of the copy to the target: None, or the file
\* /tmp/ctsaudit.{node}.xml, named here by its node
_store_remote_cib(node, query_rc, copy_rc) ==
    IF query_rc # 0 THEN NoneInt
    ELSE IF copy_rc # 0 THEN NoneInt
    ELSE node

\* a slip: a node without configuration leaves passed as it is
NoConfigurationKeeps(passed) == passed

\* if node_xml is None: passed = False
NoConfiguration(passed) == FALSE

CB_Idle ==
    /\ cb_doc = [n \in Nodes |-> "a"]
    /\ cb_stored = {}
    /\ cb_compared = {}
    /\ cb_partitions = <<>>
    /\ cb_pc = "idle"
    /\ cb_pidx = 1
    /\ cb_result = TRUE
    /\ cb_passed = TRUE
    /\ cb_node0 = NoneInt
    /\ cb_node0_xml = NoneInt
    /\ cb_nidx = 1
    /\ cb_rc = 0
    /\ cb_out = <<>>

CB_Init ==
    /\ cb_doc \in [Nodes -> {"a", "b"}]
    /\ cb_stored = {}
    /\ cb_compared = {}
    /\ cb_partitions = <<>>
    /\ cb_pc = "idle"
    /\ cb_pidx = 1
    /\ cb_result = TRUE
    /\ cb_passed = TRUE
    /\ cb_node0 = NoneInt
    /\ cb_node0_xml = NoneInt
    /\ cb_nidx = 1
    /\ cb_rc = 0
    /\ cb_out = <<>>

\* partition_hosts = hostlist.split(), for the partition the loop is at
partition_hosts ==
    LET names == Split(cb_partitions[cb_pidx])
    IN  [i \in 1..Len(names) |-> NodeOf(names[i])]

\* __call__ is entered: result = True, ccm_partitions = find_partitions()
CB_Call ==
    /\ cb_pc = "idle"
    /\ \E found \in Partitionings :
         /\ cb_partitions' = found
         /\ cb_pc' = IF found = <<>> THEN "returned" ELSE "loop"
    /\ cb_result' = TRUE
    /\ cb_pidx' = 1
    /\ UNCHANGED <<cb_doc, cb_stored, cb_compared, cb_passed, cb_node0, cb_node0_xml,
                   cb_nidx, cb_rc, cb_out>>
    /\ UNCHANGED notCB

\* the loop calls _audit_cib_contents(partition): passed = True, node0 = None,
\* node0_xml = None
CB_AuditContents ==
    /\ cb_pc = "loop"
    /\ cb_pidx <= Len(cb_partitions)
    /\ cb_pc' = "nodes"
    /\ cb_passed' = TRUE
    /\ cb_node0' = NoneInt
    /\ cb_node0_xml' = NoneInt
    /\ cb_nidx' = 1
    /\ cb_stored' = {}
    /\ cb_compared' = {}
    /\ UNCHANGED <<cb_doc, cb_partitions, cb_pidx, cb_result, cb_rc, cb_out>>
    /\ UNCHANGED notCB

\* one iteration of the loop over partition_hosts: _store_remote_cib(node,
\* node0) retrieves and copies the document (stored), or fails at the query
\* or at the copy; the first stored node becomes node0, the later ones are
\* diffed against it on node0, where both files are
CB_Node ==
    /\ cb_pc = "nodes"
    /\ cb_nidx <= Len(partition_hosts)
    /\ LET node == partition_hosts[cb_nidx]
       IN  \E query_rc \in {0, 1}, copy_rc \in {0, 1} :
             IF _store_remote_cib(node, query_rc, copy_rc) = NoneInt
             THEN /\ cb_passed' = NoConfiguration(cb_passed)
                  /\ UNCHANGED <<cb_stored, cb_compared, cb_node0, cb_node0_xml, cb_rc, cb_out>>
             ELSE IF cb_node0 = NoneInt
             THEN /\ cb_node0' = node
                  /\ cb_node0_xml' = node
                  /\ cb_stored' = cb_stored \cup {node}
                  /\ UNCHANGED <<cb_passed, cb_compared, cb_rc, cb_out>>
             ELSE IF cb_node0_xml = NoneInt
             THEN /\ cb_passed' = FALSE
                  /\ cb_stored' = cb_stored \cup {node}
                  /\ UNCHANGED <<cb_compared, cb_node0, cb_node0_xml, cb_rc, cb_out>>
             ELSE \E rc \in {0, 1}, result \in DiffOutputsFor(cb_doc[cb_node0_xml], cb_doc[node]) :
                     /\ cb_rc' = rc
                     /\ cb_out' = result
                     /\ cb_passed' =
                          IF rc # 0 THEN FALSE
                          ELSE IF \E i \in 1..Len(result) : ~IgnoredLine(result[i]) THEN FALSE
                          ELSE cb_passed
                     /\ cb_stored' = cb_stored \cup {node}
                     /\ cb_compared' = cb_compared \cup {<<cb_node0, node>>}
                     /\ UNCHANGED <<cb_node0, cb_node0_xml>>
    /\ cb_nidx' = cb_nidx + 1
    /\ UNCHANGED <<cb_doc, cb_partitions, cb_pc, cb_pidx, cb_result>>
    /\ UNCHANGED notCB

\* _audit_cib_contents returns passed: if it is False (== 0), result = False
CB_EndContents ==
    /\ cb_pc = "nodes"
    /\ cb_nidx > Len(partition_hosts)
    /\ cb_result' = IF ~cb_passed THEN FALSE ELSE cb_result
    /\ cb_pidx' = cb_pidx + 1
    /\ cb_pc' = "loop"
    /\ UNCHANGED <<cb_doc, cb_stored, cb_compared, cb_partitions, cb_passed, cb_node0,
                   cb_node0_xml, cb_nidx, cb_rc, cb_out>>
    /\ UNCHANGED notCB

\* the loop over the partitions is over: return result
CB_Return ==
    /\ cb_pc = "loop"
    /\ cb_pidx > Len(cb_partitions)
    /\ cb_pc' = "returned"
    /\ UNCHANGED <<cb_doc, cb_stored, cb_compared, cb_partitions, cb_pidx, cb_result,
                   cb_passed, cb_node0, cb_node0_xml, cb_nidx, cb_rc, cb_out>>
    /\ UNCHANGED notCB

CB_Next == CB_Call \/ CB_AuditContents \/ CB_Node \/ CB_EndContents \/ CB_Return

\* the step is an iteration of the loop over partition_hosts that ran crm_diff
CB_Compared == cb_pc = "nodes" /\ cb_compared' # cb_compared

\* the step is an iteration whose node gave no configuration
CB_NoConfiguration ==
    /\ cb_pc = "nodes"
    /\ cb_nidx' = cb_nidx + 1
    /\ cb_stored' = cb_stored

\* the loop over partition_hosts is over
CB_HostsDone == cb_pc = "nodes" /\ cb_nidx > Len(partition_hosts)

\* the running partition has two nodes with the same document, both stored,
\* and crm_diff exited with 0
CB_TwoIdentical ==
    /\ CB_HostsDone
    /\ Len(partition_hosts) = 2
    /\ cb_stored = {partition_hosts[1], partition_hosts[2]}
    /\ cb_doc[partition_hosts[1]] = cb_doc[partition_hosts[2]]
    /\ cb_rc = 0

\* C18 as stated: a crm_diff run leaves passed as it was only when it exits
\* with 0 and prints the marker line and nothing else, and sets it to False
\* otherwise; two nodes with identical documents pass.
C18_EqualOnlyOnMarkerLine ==
    /\ [][CB_Compared =>
            (cb_passed' = (cb_passed /\ cb_rc' = 0 /\ cb_out' = <<MarkerLine>>))]_vars
    /\ [](CB_TwoIdentical => cb_passed)

\* C18 amended: a crm_diff run leaves passed as it was exactly when it exits
\* with 0 and every line it prints, if any, contains the marker, and sets it
\* to False otherwise; two nodes with identical documents, both stored and
\* diffed with exit status 0, pass.
C18_EqualOnMarkerOrNothing ==
    /\ [][CB_Compared =>
            (cb_passed' = (/\ cb_passed
                           /\ cb_rc' = 0
                           /\ \A i \in 1..Len(cb_out') : Search(DiffMarker, cb_out'[i])))]_vars
    /\ [](CB_TwoIdentical => cb_passed)

\* a partition of two nodes passed on a crm_diff that printed nothing
C18_Witness ==
    /\ CB_TwoIdentical
    /\ cb_compared = {<<partition_hosts[1], partition_hosts[2]>>}
    /\ cb_out = <<>>
    /\ cb_passed

\* the first node of the running partition's host list that stored its
\* document, given that some node did
FirstStored ==
    partition_hosts[CHOOSE i \in 1..Len(partition_hosts) :
                       /\ partition_hosts[i] \in cb_stored
                       /\ \A j \in 1..(i - 1) : partition_hosts[j] \notin cb_stored]

\* C19: a node without configuration sets passed to False, whichever its
\* position, and nothing later in the partition sets it back; a node that
\* stores its document after another did is diffed against the first node
\* that stored one; a partition that did not pass makes result False, and
\* result stays False until __call__ returns.
C19_NoConfigurationFailsPartition ==
    /\ [][CB_NoConfiguration => ~cb_passed']_vars
    /\ [][(cb_pc = "nodes" /\ ~cb_passed) => ~cb_passed']_vars
    /\ [][(cb_pc = "nodes" /\ cb_stored # {} /\ cb_stored' # cb_stored) =>
            cb_compared' = cb_compared \cup {<<FirstStored, partition_hosts[cb_nidx]>>}]_vars
    /\ [][(CB_HostsDone /\ ~cb_passed) => ~cb_result']_vars
    /\ [][(cb_pc \in {"loop", "nodes"} /\ ~cb_result) => ~cb_result']_vars

\* __call__ returned False for one partition of three nodes whose first node
\* gave no configuration and whose third was diffed against the second and
\* found equal
C19_Witness ==
    /\ cb_pc = "returned"
    /\ ~cb_result
    /\ Len(cb_partitions) = 1
    /\ cb_stored = {2, 3}
    /\ cb_node0 = 2
    /\ cb_compared = {<<2, 3>>}
    /\ cb_rc = 0
    /\ \A i \in 1..Len(cb_out) : Search(DiffMarker, cb_out[i])

(***************************************************************************)
(* ControllerStateAudit                                                    *)
(***************************************************************************)
\* what test_node_cm(node) can return: not up (0 or less), up but unstable
\* (1), up and stable (2)
ProbeValues == {-1, 0, 1, 2}

\* a slip: `elif rc == 1`, the unstable test skipped for a node expected down
NodeCountsElif(should_be, rc) ==
    IF rc > 0
    THEN [down_are_up |-> should_be = "down",
          unstable    |-> should_be # "down" /\ rc = 1,
          up_are_down |-> FALSE]
    ELSE [down_are_up |-> FALSE,
          unstable    |-> FALSE,
          up_are_down |-> should_be = "up"]

\* the body of the loop over env["nodes"]: which of down_are_up, unstable_list
\* and up_are_down the node is added to
NodeCounts(should_be, rc) ==
    IF rc > 0
    THEN [down_are_up |-> should_be = "down",
          unstable    |-> rc = 1,
          up_are_down |-> FALSE]
    ELSE [down_are_up |-> FALSE,
          unstable    |-> FALSE,
          up_are_down |-> should_be = "up"]

CS_Idle ==
    /\ cs_probes = <<>>
    /\ cs_pc = "idle"
    /\ cs_calls = 0
    /\ cs_idx = 1
    /\ cs_result = TRUE
    /\ up_are_down = 0
    /\ down_are_up = 0
    /\ unstable_list = <<>>

\* __call__ is entered: result = True, the counters 0, unstable_list = []
CS_Call ==
    /\ cs_pc \in {"idle", "returned"}
    /\ cs_calls < MaxCalls
    /\ cs_calls' = cs_calls + 1
    /\ cs_pc' = "nodes"
    /\ cs_idx' = 1
    /\ cs_result' = TRUE
    /\ up_are_down' = 0
    /\ down_are_up' = 0
    /\ unstable_list' = <<>>
    /\ cs_probes' = <<>>
    /\ UNCHANGED notCS

\* one iteration of the loop over env["nodes"]
CS_Node ==
    /\ cs_pc = "nodes"
    /\ cs_idx <= Len(EnvNodes)
    /\ LET node == EnvNodes[cs_idx]
           should_be == expected_status[node]
       IN  \E rc \in ProbeValues :
             LET counts == NodeCounts(should_be, rc)
             IN  /\ cs_probes' = Append(cs_probes, <<node, rc>>)
                 /\ down_are_up' = IF counts.down_are_up THEN down_are_up + 1 ELSE down_are_up
                 /\ unstable_list' = IF counts.unstable THEN Append(unstable_list, node)
                                     ELSE unstable_list
                 /\ up_are_down' = IF counts.up_are_down THEN up_are_down + 1 ELSE up_are_down
    /\ cs_idx' = cs_idx + 1
    /\ UNCHANGED <<cs_pc, cs_calls, cs_result>>
    /\ UNCHANGED notCS

\* after the loop: the three tests, each setting result = False, and return
CS_Return ==
    /\ cs_pc = "nodes"
    /\ cs_idx > Len(EnvNodes)
    /\ cs_result' = IF Len(unstable_list) > 0 THEN FALSE
                    ELSE IF up_are_down > 0 THEN FALSE
                    ELSE IF down_are_up > 0 THEN FALSE
                    ELSE cs_result
    /\ cs_pc' = "returned"
    /\ UNCHANGED <<cs_probes, cs_calls, cs_idx, up_are_down, down_are_up, unstable_list>>
    /\ UNCHANGED notCS

CS_Next == CS_Call \/ CS_Node \/ CS_Return

\* the probe values the running __call__ got for the node
ProbesOf(node) == { i \in 1..Len(cs_probes) : cs_probes[i][1] = node }

\* the nodes whose probe in the running __call__ satisfies the test, given
\* that each was probed once
Probed(Test(_, _)) ==
    { n \in Nodes : \E i \in ProbesOf(n) : Test(expected_status[n], cs_probes[i][2]) }

Unstable(should_be, rc) == rc = 1

UpIsDown(should_be, rc) == should_be = "up" /\ rc <= 0

DownIsUp(should_be, rc) == should_be = "down" /\ rc > 0

\* C20: when __call__ has returned, every node was probed exactly once; the
\* unstable list holds the nodes that probed 1 and the two counters count the
\* nodes expected up that probed 0 or less and the nodes expected down that
\* probed above 0, a node expected down that probed 1 being in both the list
\* and down_are_up; and the result is True iff all three are empty.
C20_ControllerStateVerdict ==
    cs_pc = "returned" =>
       /\ \A n \in Nodes : Cardinality(ProbesOf(n)) = 1
       /\ Range(unstable_list) = Probed(Unstable)
       /\ Len(unstable_list) = Cardinality(Probed(Unstable))
       /\ up_are_down = Cardinality(Probed(UpIsDown))
       /\ down_are_up = Cardinality(Probed(DownIsUp))
       /\ cs_result <=> (Probed(Unstable) = {} /\ Probed(UpIsDown) = {} /\ Probed(DownIsUp) = {})

\* __call__ returned False with a node expected down that probed unstable,
\* counted in both unstable_list and down_are_up, and another node expected up
\* that probed down
C20_Witness ==
    /\ cs_pc = "returned"
    /\ ~cs_result
    /\ Probed(Unstable) \cap Probed(DownIsUp) # {}
    /\ Len(unstable_list) = 1
    /\ down_are_up = 1
    /\ up_are_down = 1

(***************************************************************************)
(* FileAudit                                                               *)
(***************************************************************************)
\* lines of the core listings: a core file, the same with other blanks
\* around it, and two other core files
CoreLine == <<"c", "1", "\n">>

CoreLineIndented == <<" ", "c", "1", "\n">>

OtherCoreLine == <<"c", "2", "\n">>

NewCoreLine == <<"c", "3", "\n">>

\* a line of the /dev/shm listing
QbLine == <<"q", "b", "-", "\n">>

\* what the two core listings of one node can be: for
\* /var/lib/pacemaker/cores/* and for /var/lib/corosync
CoreListings ==
    { [pacemaker |-> <<>>, corosync |-> <<>>],
      [pacemaker |-> <<CoreLine>>, corosync |-> <<>>],
      [pacemaker |-> <<CoreLineIndented, OtherCoreLine>>, corosync |-> <<CoreLine>>] }

\* a slip: the reported line is not added to self.known
RECURSIVE FindCoreForgetting(_, _)
FindCoreForgetting(lsout, seen) ==
    IF lsout = <<>> THEN [found |-> FALSE, known |-> seen, reported |-> <<>>]
    ELSE LET line == Strip(Head(lsout))
         IN  IF line \in Range(seen) THEN FindCoreForgetting(Tail(lsout), seen)
             ELSE LET rest == FindCoreForgetting(Tail(lsout), seen)
                  IN  [found |-> TRUE, known |-> rest.known, reported |-> <<line>> \o rest.reported]

\* _find_core_on_fs, given the listing and self.known: what it returns, what
\* self.known is afterwards, and the lines it logged
RECURSIVE _find_core_on_fs(_, _)
_find_core_on_fs(lsout, seen) ==
    IF lsout = <<>> THEN [found |-> FALSE, known |-> seen, reported |-> <<>>]
    ELSE LET line == Strip(Head(lsout))
         IN  IF line \in Range(seen) THEN _find_core_on_fs(Tail(lsout), seen)
             ELSE LET rest == _find_core_on_fs(Tail(lsout), Append(seen, line))
                  IN  [found |-> TRUE, known |-> rest.known, reported |-> <<line>> \o rest.reported]

\* a slip: the files are removed before the processes are listed
ShmCommandsRemoveFirst(node, status, lsout) ==
    IF status = "down"
    THEN <<<<node, "ls">>>> \o (IF lsout # <<>> THEN <<<<node, "rm">>, <<node, "ps">>>> ELSE <<>>)
    ELSE <<>>

\* the /dev/shm commands __call__ runs on a node, given its expected status
\* and what the listing shows: the listing, then if clean the ps listing and
\* the rm command
ShmCommands(node, status, lsout) ==
    IF status = "down"
    THEN <<<<node, "ls">>>> \o (IF lsout # <<>> THEN <<<<node, "ps">>, <<node, "rm">>>> ELSE <<>>)
    ELSE <<>>

FA_Idle ==
    /\ fa_cores = [n \in Nodes |-> [pacemaker |-> <<>>, corosync |-> <<>>]]
    /\ fa_shm = [n \in Nodes |-> <<>>]
    /\ fa_changed = FALSE
    /\ known = <<>>
    /\ fa_pc = "idle"
    /\ fa_calls = 0
    /\ fa_unchanged = FALSE
    /\ fa_idx = 1
    /\ fa_result = TRUE
    /\ fa_cmds = <<>>
    /\ fa_reported = <<>>

FA_Init ==
    /\ fa_cores \in [Nodes -> CoreListings]
    /\ fa_shm \in [Nodes -> {<<>>, <<QbLine>>}]
    /\ fa_changed = FALSE
    /\ known = <<>>
    /\ fa_pc = "idle"
    /\ fa_calls = 0
    /\ fa_unchanged = FALSE
    /\ fa_idx = 1
    /\ fa_result = TRUE
    /\ fa_cmds = <<>>
    /\ fa_reported = <<>>

\* a daemon of node 1 dumps a new core between two invocations
FA_Dump ==
    /\ fa_pc = "returned"
    /\ NewCoreLine \notin Range(fa_cores[1].pacemaker)
    /\ fa_cores' = [fa_cores EXCEPT ![1].pacemaker = Append(@, NewCoreLine)]
    /\ fa_changed' = TRUE
    /\ UNCHANGED <<fa_shm, known, fa_pc, fa_calls, fa_unchanged, fa_idx, fa_result, fa_cmds,
                   fa_reported>>
    /\ UNCHANGED notFA

\* __call__ is entered: result = True (wait_for_all_nodes has returned)
FA_Call ==
    /\ fa_pc \in {"idle", "returned"}
    /\ fa_calls < MaxCalls
    /\ fa_calls' = fa_calls + 1
    /\ fa_unchanged' = (fa_calls > 0 /\ ~fa_changed)
    /\ fa_changed' = FALSE
    /\ fa_pc' = "nodes"
    /\ fa_idx' = 1
    /\ fa_result' = TRUE
    /\ fa_cmds' = <<>>
    /\ fa_reported' = <<>>
    /\ UNCHANGED <<fa_cores, fa_shm, known>>
    /\ UNCHANGED notFA

\* one iteration of the loop over env["nodes"]: the two core searches and, on
\* a node expected down, the /dev/shm listing, followed if it has a line by
\* the ps listing and the rm command, which removes the files or fails to
FA_Node ==
    /\ fa_pc = "nodes"
    /\ fa_idx <= Len(EnvNodes)
    /\ LET node == EnvNodes[fa_idx]
           pacemaker == _find_core_on_fs(fa_cores[node].pacemaker, known)
           corosync == _find_core_on_fs(fa_cores[node].corosync, pacemaker.known)
           down == expected_status[node] = "down"
           lsout == fa_shm[node]
           clean == down /\ lsout # <<>>
           cores == pacemaker.reported \o corosync.reported
       IN  /\ known' = corosync.known
           /\ fa_result' = IF pacemaker.found \/ corosync.found \/ clean THEN FALSE ELSE fa_result
           /\ fa_reported' = fa_reported
                               \o [i \in 1..Len(cores) |-> <<node, "core", cores[i]>>]
                               \o (IF down THEN [i \in 1..Len(lsout) |-> <<node, "ipc", lsout[i]>>]
                                   ELSE <<>>)
           /\ fa_cmds' = fa_cmds \o ShmCommands(node, expected_status[node], lsout)
           /\ IF clean
              THEN \E removed \in BOOLEAN :
                     IF removed
                     THEN fa_shm' = [fa_shm EXCEPT ![node] = <<>>] /\ fa_changed' = TRUE
                     ELSE UNCHANGED <<fa_shm, fa_changed>>
              ELSE UNCHANGED <<fa_shm, fa_changed>>
    /\ fa_idx' = fa_idx + 1
    /\ UNCHANGED <<fa_cores, fa_pc, fa_calls, fa_unchanged>>
    /\ UNCHANGED notFA

\* the loop is over: return result
FA_Return ==
    /\ fa_pc = "nodes"
    /\ fa_idx > Len(EnvNodes)
    /\ fa_pc' = "returned"
    /\ UNCHANGED <<fa_cores, fa_shm, fa_changed, known, fa_calls, fa_unchanged, fa_idx,
                   fa_result, fa_cmds, fa_reported>>
    /\ UNCHANGED notFA

FA_Next == FA_Dump \/ FA_Call \/ FA_Node \/ FA_Return

\* the findings of the given kind logged by the running __call__
FindingsOf(kind) == { i \in 1..Len(fa_reported) : fa_reported[i][2] = kind }

\* __call__ has returned from an invocation that found every listing as the
\* previous invocation found it
FA_Rerun == fa_pc = "returned" /\ fa_unchanged

FA_Visits(n) == fa_pc = "nodes" /\ fa_idx <= Len(EnvNodes) /\ EnvNodes[fa_idx] = n /\ fa_idx' = fa_idx + 1

\* C22: __call__ lists /dev/shm on the nodes expected down and on no other
\* node; when the listing of such a node shows a file the result is False and
\* the ps listing and then the rm command follow on that node; on a node
\* expected up, and on a node expected down whose listing is empty, no ps and
\* no rm command is run, and that node's /dev/shm does not make the result
\* False: the audit returns False iff it logged a finding.
C22_StaleIpcOnDownNodes ==
    /\ [][\A n \in Nodes : FA_Visits(n) =>
            IF expected_status[n] = "down" /\ fa_shm[n] # <<>>
            THEN /\ fa_cmds' = fa_cmds \o <<<<n, "ls">>, <<n, "ps">>, <<n, "rm">>>>
                 /\ ~fa_result'
            ELSE IF expected_status[n] = "down"
            THEN /\ fa_cmds' = Append(fa_cmds, <<n, "ls">>)
                 /\ \A i \in 1..Len(fa_reported') :
                       fa_reported'[i][2] = "ipc" => fa_reported'[i] \in Range(fa_reported)
            ELSE /\ fa_cmds' = fa_cmds
                 /\ \A i \in 1..Len(fa_reported') :
                       fa_reported'[i][2] = "ipc" => fa_reported'[i] \in Range(fa_reported)]_vars
    /\ [](fa_pc = "returned" => (fa_result <=> fa_reported = <<>>))

\* __call__ returned having listed, snapshot and cleaned node 1 (expected
\* down, stale files), only listed node 2 (expected down, no stale file) and
\* left alone node 3 (expected up, files in /dev/shm)
C22_Witness ==
    /\ fa_pc = "returned"
    /\ ~fa_result
    /\ expected_status[1] = "down" /\ expected_status[2] = "down" /\ expected_status[3] = "up"
    /\ fa_shm[3] # <<>>
    /\ SubSeq(fa_cmds, 1, 4) = <<<<1, "ls">>, <<1, "ps">>, <<1, "rm">>, <<2, "ls">>>>
    /\ \A i \in 1..Len(fa_cmds) : fa_cmds[i][1] # 3

(***************************************************************************)
(* PartitionAudit: expectations, quorum and the number of partitions       *)
(***************************************************************************)
\* epoch lines for the expectation map: no epoch, epoch 0 and epoch 5
StateEpochLines == { <<"\n">>, <<"0", "\n">>, <<"5", "\n">> }

\* the cluster PartitionAudit looks at: every node prints an epoch line and a
\* quorum line, the same quorum line on all nodes
PA_InitState ==
    /\ expected_status \in [Nodes -> {"up", "down"}]
    /\ pa_epoch_out \in [Nodes -> { <<l>> : l \in StateEpochLines }]
    /\ \E line \in {QuorumLine, NoQuorumLine} : pa_quorum_out = [n \in Nodes |-> <<line>>]
    /\ pa_pc = "idle"
    /\ pa_idx = 1
    /\ pa_node_epoch = [n \in Nodes |-> NoneInt]
    /\ pa_node_quorum = [n \in Nodes |-> NoneText]
    /\ pa_lowest_epoch = NoneInt
    /\ pa_dc_found = <<>>
    /\ pa_passed = TRUE
    /\ pa_exc = "none"
    /\ pa_partition = PartitionText([i \in 1..NumNodes |-> i])

\* the node's EpochCmd printed a number, or nothing but blanks
ProducedEpoch(n) == pa_epoch_out[n] # <<>> /\ IntOk(pa_epoch_out[n][1])

ProducedNoEpoch(n) == pa_epoch_out[n] = <<>> \/ Strip(pa_epoch_out[n][1]) = <<>>

\* C25: when _audit_partition has returned, every node of the partition that
\* printed an epoch is expected up and every node of it that printed none is
\* expected down; and while a partition is audited the expectation of the
\* nodes outside it does not change.
C25_ExpectationsFollowObservation ==
    /\ [](pa_pc = "returned" =>
            \A n \in Range(node_list) :
               /\ ProducedEpoch(n) => expected_status[n] = "up"
               /\ ProducedNoEpoch(n) => expected_status[n] = "down")
    /\ [][pt_pc = "auditing" =>
            \A n \in Nodes \ Range(node_list) : expected_status'[n] = expected_status[n]]_vars

\* C26: when _audit_partition has returned for a partition all of whose
\* nodes reported quorum as absent, it has returned False.
C26_NoQuorumFails ==
    (pa_pc = "returned" /\ \A n \in Range(node_list) : pa_node_quorum[n] = <<"0">>)
        => ~pa_passed

\* __call__ does not return True once a partition's audit has returned
\* False, and keeps a False result
PT_FailureKept ==
    /\ [][(pt_pc = "auditing" /\ pa_pc = "returned" /\ ~pa_passed) => ~pt_result']_vars
    /\ [][(pt_pc \in {"loop", "auditing"} /\ ~pt_result) => ~pt_result']_vars

C23_ModelRebuiltEachInvocation ==
    (rs_pc = "loop" /\ rs_idx = 1) =>
       /\ rs_resources = MapLines(rs_lines, "Resource")
       /\ rs_constraints = MapLines(rs_lines, "Constraint")
       /\ rs_active_nodes = UpList
       /\ rs_inactive_nodes = DownList

(***************************************************************************)
(* is_applicable(), per audit class                                        *)
(***************************************************************************)
\* values env["LogAuditDisabled"] can have, and those Python takes for false
EnvValues == {"True", "False", "None", "0", "1", "''", "'yes'"}

Falsy == {"False", "None", "0", "''"}

\* cluster stack names
StackNames == {"crm-corosync", "corosync"}

\* a slip: the name test of the comment is in force
IsApplicableByName(auditclass) ==
    IF auditclass \in {"DiskAudit", "FileAudit"} THEN TRUE
    ELSE IF auditclass = "LogAudit" THEN LogAuditDisabled \in Falsy
    ELSE cm_Name = "crm-corosync"

\* is_applicable() of an instance of the class: GroupAudit, CloneAudit and
\* ColocationAudit inherit it from PrimitiveAudit
is_applicable(auditclass) ==
    IF auditclass \in {"DiskAudit", "FileAudit"} THEN TRUE
    ELSE IF auditclass = "LogAudit" THEN LogAuditDisabled \in Falsy
    ELSE FALSE

EN_Idle ==
    /\ LogAuditDisabled = "False"
    /\ cm_Name = "corosync"

EN_Init ==
    /\ LogAuditDisabled \in EnvValues
    /\ cm_Name \in StackNames

\* audit_list in a test configuration: every audit answers as its class does
AL_Configured ==
    /\ al_applicable = [i \in 1..Len(Catalog) |-> is_applicable(Catalog[i])]
    /\ al_pc = "idle"
    /\ al_idx = 1
    /\ al_result = <<>>

\* C24: in every configuration the seven audits from ControllerStateAudit on
\* are not applicable, and audit_list returns DiskAudit, FileAudit and then
\* LogAudit iff env["LogAuditDisabled"] is false, and nothing else.
C24_OnlyDiskFileLog ==
    /\ \A i \in 4..Len(Catalog) : ~al_applicable[i]
    /\ al_pc = "returned" =>
          al_result = <<"DiskAudit", "FileAudit">>
                         \o (IF LogAuditDisabled \in Falsy THEN <<"LogAudit">> ELSE <<>>)

\* audit_list returned in a crm-corosync cluster with log audits enabled, and
\* in one with log audits disabled by a non-boolean value
C24_Witness ==
    /\ al_pc = "returned"
    /\ cm_Name = "crm-corosync"
    /\ \/ LogAuditDisabled = "0" /\ Len(al_result) = 3
       \/ LogAuditDisabled = "'yes'" /\ Len(al_result) = 2

(***************************************************************************)
(* ResourceRecover: fail a resource and verify its fail count increases     *)
(***************************************************************************)

\* the decimal text of a fail count, as crm_failcount prints it on one line
DigitChar(d) == <<"0", "1", "2", "3", "4", "5", "6", "7", "8", "9">>[d + 1]

FailcountLine(n) ==
    IF n < 10 THEN <<DigitChar(n), "\n">>
    ELSE <<DigitChar(n \div 10), DigitChar(n % 10), "\n">>

\* a line int() cannot parse
InfinityLine == <<"I", "N", "F", "I", "N", "I", "T", "Y", "\n">>

\* what `crm_failcount --query --quiet` can print when the count is n:
\* nothing, the count, a score that is no integer, the count and a second line
FailcountOutputs(n) ==
    { <<>>, <<FailcountLine(n)>>, <<InfinityLine>>, <<FailcountLine(n), InfinityLine>> }

\* _get_failcount: -1 unless the command succeeded with one line int() parses
_get_failcount(rc, lines) ==
    IF rc # 0 \/ Len(lines) # 1 THEN -1
    ELSE IF ~IntOk(lines[1]) THEN -1
    ELSE PyInt(lines[1])

\* the flags `crm_resource -c` can print for the chosen resource:
\* neither managed nor unique, managed, unique, both
RecoverFlags == { <<"0">>, <<"2">>, <<"3", "2">>, <<"3", "4">> }

RR_Idle ==
    /\ rr_failcount = 0
    /\ rr_pc = "done"
    /\ rr_rsc = <<>>
    /\ rr_orig_failcount = NoneInt
    /\ rr_new_failcount = NoneInt
    /\ rr_queries = <<>>
    /\ rr_trace = <<>>
    /\ rr_unmatched = FALSE
    /\ rr_recovered = <<>>
    /\ rr_ret = None
    /\ rr_outcome = "none"

\* the test is about to be called; the resource has failed before or not
RR_Init ==
    /\ rr_failcount \in {0, 1}
    /\ rr_pc = "call"
    /\ rr_rsc = <<>>
    /\ rr_orig_failcount = NoneInt
    /\ rr_new_failcount = NoneInt
    /\ rr_queries = <<>>
    /\ rr_trace = <<>>
    /\ rr_unmatched = FALSE
    /\ rr_recovered = <<>>
    /\ rr_ret = None
    /\ rr_outcome = "none"

\* __call__ up to the call of _fail_resource: setup, the active resources of
\* the node, the resource _choose_resource found among the lines of crm_resource -c
RR_Call ==
    /\ rr_pc = "call"
    /\ \E startall \in BOOLEAN, active \in BOOLEAN,
          rsc \in {<<>>} \cup { <<AuditResource(ResourceLine("primitive", "r1", "NA", <<"0">>, fl))>> :
                                   fl \in RecoverFlags } :
          IF ~startall
          THEN /\ rr_outcome' = "failure"
               /\ rr_pc' = "done"
               /\ rr_rsc' = rr_rsc
          ELSE IF ~active
          THEN /\ rr_outcome' = "skipped"
               /\ rr_pc' = "done"
               /\ rr_rsc' = rr_rsc
          ELSE IF rsc = <<>>
          THEN /\ rr_outcome' = "failure"
               /\ rr_pc' = "done"
               /\ rr_rsc' = rr_rsc
          ELSE /\ rr_outcome' = rr_outcome
               /\ rr_pc' = "fail_resource"
               /\ rr_rsc' = rsc
    /\ UNCHANGED <<rr_failcount, rr_orig_failcount, rr_new_failcount, rr_queries, rr_trace,
                   rr_unmatched, rr_recovered, rr_ret>>
    /\ UNCHANGED notRR

\* _fail_resource: the fail count before the failure, then the watch is armed
RR_OrigFailcount ==
    /\ rr_pc = "fail_resource"
    /\ \E rc \in {0, 1}, lines \in FailcountOutputs(rr_failcount) :
          /\ rr_orig_failcount' = _get_failcount(rc, lines)
          /\ rr_queries' = Append(rr_queries, [rc |-> rc, lines |-> lines, count |-> rr_failcount])
    /\ rr_trace' = rr_trace \o <<"get_failcount", "set_watch">>
    /\ rr_pc' = "armed"
    /\ UNCHANGED <<rr_failcount, rr_rsc, rr_new_failcount, rr_unmatched, rr_recovered,
                   rr_ret, rr_outcome>>
    /\ UNCHANGED notRR

\* a slip: a resource active on several nodes fails the test, unique or not
RR_FailStrict ==
    /\ rr_pc = "armed"
    /\ \E counted \in 0..2, unmatched \in BOOLEAN, recovered \in Locations :
          /\ rr_failcount' = rr_failcount + counted
          /\ rr_unmatched' = unmatched
          /\ rr_recovered' = recovered
          /\ IF unmatched
             THEN rr_outcome' = "failure" /\ rr_pc' = "returned"
             ELSE IF Len(recovered) > 1
             THEN rr_outcome' = "failure" /\ rr_pc' = "returned"
             ELSE IF recovered = <<>> /\ managed(rr_rsc[1]) # 0
             THEN rr_outcome' = "failure" /\ rr_pc' = "returned"
             ELSE rr_outcome' = rr_outcome /\ rr_pc' = "recovered"
    /\ rr_trace' = rr_trace \o <<"fail", "look_for_all", "cluster_stable", "resource_location">>
    /\ UNCHANGED <<rr_rsc, rr_orig_failcount, rr_new_failcount, rr_queries, rr_ret>>
    /\ UNCHANGED notRR

\* _fail_resource: crm_resource -F, the wait for the patterns and for the
\* cluster, where the resource is now, and the three tests on that.  The
\* cluster counts the failure, or misses it, or counts a second one before the
\* resource is located.
RR_Fail ==
    /\ rr_pc = "armed"
    /\ \E counted \in 0..2, unmatched \in BOOLEAN, recovered \in Locations :
          /\ rr_failcount' = rr_failcount + counted
          /\ rr_unmatched' = unmatched
          /\ rr_recovered' = recovered
          /\ IF unmatched
             THEN rr_outcome' = "failure" /\ rr_pc' = "returned"
             ELSE IF unique(rr_rsc[1]) # 0 /\ Len(recovered) > 1
             THEN rr_outcome' = "failure" /\ rr_pc' = "returned"
             ELSE IF recovered = <<>> /\ managed(rr_rsc[1]) # 0
             THEN rr_outcome' = "failure" /\ rr_pc' = "returned"
             ELSE rr_outcome' = rr_outcome /\ rr_pc' = "recovered"
    /\ rr_trace' = rr_trace \o <<"fail", "look_for_all", "cluster_stable", "resource_location">>
    /\ UNCHANGED <<rr_rsc, rr_orig_failcount, rr_new_failcount, rr_queries, rr_ret>>
    /\ UNCHANGED notRR

\* _fail_resource: the fail count after the failure and the comparison
RR_NewFailcount ==
    /\ rr_pc = "recovered"
    /\ \E rc \in {0, 1}, lines \in FailcountOutputs(rr_failcount) :
          LET new_failcount == _get_failcount(rc, lines) IN
          /\ rr_new_failcount' = new_failcount
          /\ rr_queries' = Append(rr_queries, [rc |-> rc, lines |-> lines, count |-> rr_failcount])
          /\ IF new_failcount # rr_orig_failcount + 1
             THEN rr_outcome' = "failure" /\ rr_ret' = rr_ret
             ELSE rr_outcome' = rr_outcome /\ rr_ret' = "0"
    /\ rr_trace' = Append(rr_trace, "get_failcount")
    /\ rr_pc' = "returned"
    /\ UNCHANGED <<rr_failcount, rr_rsc, rr_orig_failcount, rr_unmatched, rr_recovered>>
    /\ UNCHANGED notRR

\* __call__ after _fail_resource: None is passed on, anything else is success
RR_Return ==
    /\ rr_pc = "returned"
    /\ rr_outcome' = IF rr_ret = None THEN rr_outcome ELSE "success"
    /\ rr_pc' = "done"
    /\ UNCHANGED <<rr_failcount, rr_rsc, rr_orig_failcount, rr_new_failcount, rr_queries,
                   rr_trace, rr_unmatched, rr_recovered, rr_ret>>
    /\ UNCHANGED notRR

RR_Next == RR_Call \/ RR_OrigFailcount \/ RR_Fail \/ RR_NewFailcount \/ RR_Return

\* a query whose command succeeded with one line that is an integer
QueryWorked(q) == q.rc = 0 /\ Len(q.lines) = 1 /\ IntOk(q.lines[1])

\* C28: the test reports success only if both fail-count queries worked and
\* the fail count of the resource on the node rose by exactly one across the
\* injected failure
C28_SuccessMeansCountedOnce ==
    rr_outcome = "success" =>
        /\ Len(rr_queries) = 2
        /\ QueryWorked(rr_queries[1])
        /\ QueryWorked(rr_queries[2])
        /\ rr_queries[2].count = rr_queries[1].count + 1

\* the position of an entry in the trace of _fail_resource, 0 if it is not there
TraceIndex(event) ==
    IF \E i \in 1..Len(rr_trace) : rr_trace[i] = event
    THEN CHOOSE i \in 1..Len(rr_trace) :
            rr_trace[i] = event /\ \A j \in 1..(i - 1) : rr_trace[j] # event
    ELSE 0

\* the three grounds on which _fail_resource fails the test after the wait
RR_Unmatched == rr_unmatched

RR_UniqueOnSeveral == unique(rr_rsc[1]) # 0 /\ Len(rr_recovered) > 1

RR_ManagedNowhere == managed(rr_rsc[1]) # 0 /\ rr_recovered = <<>>

\* C33: when the failure is injected the watch is already set; once the
\* resource has been located, the test has failed if a pattern is unmatched,
\* if the resource is unique and active on more than one node, or if it is
\* managed and active nowhere, and otherwise (an unmanaged resource active
\* nowhere, a resource that is not unique active on two nodes) it has not
\* failed and goes on to the fail count
C33_WatchThenFailureGrounds ==
    TraceIndex("fail") > 0 =>
        /\ TraceIndex("set_watch") > 0
        /\ TraceIndex("set_watch") < TraceIndex("fail")
        /\ TraceIndex("fail") < TraceIndex("look_for_all")
        /\ TraceIndex("look_for_all") < TraceIndex("resource_location")
        /\ (RR_Unmatched \/ RR_UniqueOnSeveral \/ RR_ManagedNowhere) =>
               /\ rr_outcome = "failure"
               /\ rr_pc \in {"returned", "done"}
               /\ rr_ret = None
               /\ Len(rr_queries) = 1
        /\ ~(RR_Unmatched \/ RR_UniqueOnSeveral \/ RR_ManagedNowhere) =>
               /\ rr_pc = "recovered" => rr_outcome = "none"
               /\ rr_pc \in {"returned", "done"} => Len(rr_queries) = 2
               /\ rr_outcome = "failure" => rr_new_failcount # rr_orig_failcount + 1

\* C33 witness: a managed resource that is not unique is active on two nodes
\* after the failure, every pattern matched, and the test went on to succeed
C33_Witness ==
    /\ rr_pc = "done"
    /\ rr_outcome = "success"
    /\ rr_rsc # <<>>
    /\ unique(rr_rsc[1]) = 0
    /\ managed(rr_rsc[1]) # 0
    /\ Len(rr_recovered) = 2
    /\ ~rr_unmatched

(***************************************************************************)
(* StandbyTest: put a node into standby and check that resources leave it   *)
(***************************************************************************)

SB_Idle ==
    /\ sb_standby = [n \in Nodes |-> FALSE]
    /\ sb_running = [n \in Nodes |-> FALSE]
    /\ sb_node = 1
    /\ sb_pc = "done"
    /\ sb_trace = <<>>
    /\ sb_outcome = "none"

\* the test is about to be called on some node of some cluster
SB_Init ==
    /\ sb_standby \in [Nodes -> BOOLEAN]
    /\ sb_running \in [Nodes -> BOOLEAN]
    /\ sb_node \in Nodes
    /\ sb_pc = "call"
    /\ sb_trace = <<>>
    /\ sb_outcome = "none"

\* in_standby_mode(node), as an entry of the trace
Observed(standby) == IF standby THEN "in_standby:on" ELSE "in_standby:off"

\* set_standby_mode(node, value) and what it returned, as an entry of the trace
Requested(value, ok) ==
    IF value THEN (IF ok THEN "set_standby:on:ok" ELSE "set_standby:on:failed")
    ELSE (IF ok THEN "set_standby:off:ok" ELSE "set_standby:off:failed")

\* __call__ up to the check that the node is active: start all nodes, set the
\* node active if it is in standby, wait, and look again.  A request the
\* cluster accepted takes effect or does not.
SB_Call ==
    /\ sb_pc = "call"
    /\ \E startall \in BOOLEAN, ok \in BOOLEAN, effect \in BOOLEAN :
          LET was == sb_standby[sb_node]
              now == IF was /\ ok /\ effect THEN FALSE ELSE was
          IN  IF ~startall
              THEN /\ sb_trace' = <<"startall:failed">>
                   /\ sb_outcome' = "failure"
                   /\ sb_pc' = "done"
                   /\ sb_standby' = sb_standby
              ELSE IF was /\ ~ok
              THEN /\ sb_trace' = <<"startall:ok", Observed(was), Requested(FALSE, FALSE)>>
                   /\ sb_outcome' = "failure"
                   /\ sb_pc' = "done"
                   /\ sb_standby' = sb_standby
              ELSE /\ sb_trace' = <<"startall:ok", Observed(was)>>
                                  \o (IF was THEN <<Requested(FALSE, TRUE)>> ELSE <<>>)
                                  \o <<"cluster_stable", Observed(now)>>
                   /\ sb_standby' = [sb_standby EXCEPT ![sb_node] = now]
                   /\ IF now
                      THEN sb_outcome' = "failure" /\ sb_pc' = "done"
                      ELSE sb_outcome' = sb_outcome /\ sb_pc' = "standby"
    /\ UNCHANGED <<sb_running, sb_node>>
    /\ UNCHANGED notSB

\* the watch is created and armed, then the node is set to standby; when the
\* request takes effect the resources of the node move away or stay
SB_Standby ==
    /\ sb_pc = "standby"
    /\ \E ok \in BOOLEAN, effect \in BOOLEAN, moved \in BOOLEAN :
          /\ sb_trace' = sb_trace \o <<"set_watch", Requested(TRUE, ok)>>
          /\ sb_standby' = [sb_standby EXCEPT ![sb_node] = ok /\ effect]
          /\ sb_running' = [sb_running EXCEPT ![sb_node] = @ /\ ~(ok /\ effect /\ moved)]
          /\ IF ~ok
             THEN sb_outcome' = "failure" /\ sb_pc' = "done"
             ELSE sb_outcome' = sb_outcome /\ sb_pc' = "look_for_all"
    /\ UNCHANGED sb_node
    /\ UNCHANGED notSB

\* the wait for the pattern; unmatched, the node is set active again and the
\* test fails; matched, the cluster settles and the node must be in standby
SB_Watch ==
    /\ sb_pc = "look_for_all"
    /\ \E ret \in BOOLEAN, ok \in BOOLEAN, effect \in BOOLEAN :
          IF ~ret
          THEN /\ sb_trace' = sb_trace \o <<"look_for_all:unmatched", Requested(FALSE, ok)>>
               /\ sb_standby' = [sb_standby EXCEPT ![sb_node] = @ /\ ~(ok /\ effect)]
               /\ sb_outcome' = "failure"
               /\ sb_pc' = "done"
          ELSE /\ sb_trace' = sb_trace \o <<"look_for_all:matched", "cluster_stable",
                                             Observed(sb_standby[sb_node])>>
               /\ sb_standby' = sb_standby
               /\ IF ~sb_standby[sb_node]
                  THEN sb_outcome' = "failure" /\ sb_pc' = "done"
                  ELSE sb_outcome' = sb_outcome /\ sb_pc' = "resources"
    /\ UNCHANGED <<sb_running, sb_node>>
    /\ UNCHANGED notSB

\* SB_Resources returning the failure at once, the node left as it is
SB_ResourcesLeaving ==
    /\ sb_pc = "resources"
    /\ IF sb_running[sb_node]
       THEN /\ sb_trace' = Append(sb_trace, "active_resources:some")
            /\ sb_outcome' = "failure"
            /\ sb_pc' = "done"
       ELSE /\ sb_trace' = Append(sb_trace, "active_resources:none")
            /\ sb_outcome' = sb_outcome
            /\ sb_pc' = "active"
    /\ UNCHANGED <<sb_standby, sb_running, sb_node>>
    /\ UNCHANGED notSB

\* the resources active on the node; if there are any the test fails and the
\* node is set active before __call__ returns
SB_Resources ==
    /\ sb_pc = "resources"
    /\ \E ok \in BOOLEAN, effect \in BOOLEAN :
          IF sb_running[sb_node]
          THEN /\ sb_trace' = sb_trace \o <<"active_resources:some", Requested(FALSE, ok)>>
               /\ sb_standby' = [sb_standby EXCEPT ![sb_node] = @ /\ ~(ok /\ effect)]
               /\ sb_outcome' = "failure"
               /\ sb_pc' = "done"
          ELSE /\ sb_trace' = Append(sb_trace, "active_resources:none")
               /\ sb_standby' = sb_standby
               /\ sb_outcome' = sb_outcome
               /\ sb_pc' = "active"
    /\ UNCHANGED <<sb_running, sb_node>>
    /\ UNCHANGED notSB

\* the node is set active, the cluster settles and the node must be out of
\* standby: success
SB_Active ==
    /\ sb_pc = "active"
    /\ \E ok \in BOOLEAN, effect \in BOOLEAN :
          LET now == sb_standby[sb_node] /\ ~(ok /\ effect) IN
          /\ sb_standby' = [sb_standby EXCEPT ![sb_node] = now]
          /\ IF ~ok
             THEN /\ sb_trace' = Append(sb_trace, Requested(FALSE, FALSE))
                  /\ sb_outcome' = "failure"
             ELSE /\ sb_trace' = sb_trace \o <<Requested(FALSE, TRUE), "cluster_stable",
                                                Observed(now)>>
                  /\ sb_outcome' = IF now THEN "failure" ELSE "success"
    /\ sb_pc' = "done"
    /\ UNCHANGED <<sb_running, sb_node>>
    /\ UNCHANGED notSB

SB_Next == SB_Call \/ SB_Standby \/ SB_Watch \/ SB_Resources \/ SB_Active

\* the entries of the trace a successful run must show, in this order
SB_SuccessOrder ==
    << "in_standby:off", "set_watch", "set_standby:on:ok", "look_for_all:matched",
       "in_standby:on", "active_resources:none", "set_standby:off:ok", "in_standby:off" >>

\* events occur in trace in their order, the first of them at from or later
RECURSIVE InOrder(_, _, _)
InOrder(events, trace, from) ==
    IF events = <<>> THEN TRUE
    ELSE \E i \in from..Len(trace) :
            /\ trace[i] = events[1]
            /\ InOrder(Tail(events), trace, i + 1)

\* the positions of the trace where the node was set to standby, and accepted
StandbyRequests == { i \in 1..Len(sb_trace) : sb_trace[i] = "set_standby:on:ok" }

\* the last answer of in_standby_mode() in the trace was "in standby"
LastObservedInStandby ==
    \E i \in 1..Len(sb_trace) :
        /\ sb_trace[i] = "in_standby:on"
        /\ \A j \in (i + 1)..Len(sb_trace) : sb_trace[j] # "in_standby:off"

\* C29: success is reported only after, in this order: the node seen out of
\* standby, the watch armed, the standby request accepted, the pattern
\* matched, the node seen in standby, no resource active on it, the node set
\* active and seen out of standby; no standby request comes before the watch
\* is armed; and a return after an accepted standby request with the node
\* last seen in standby comes after a later request to set the node active
C29_StandbyOrder ==
    /\ sb_outcome = "success" =>
          /\ InOrder(SB_SuccessOrder, sb_trace, 1)
          /\ \A i \in 1..Len(sb_trace) :
                sb_trace[i] \in {"set_standby:on:ok", "set_standby:on:failed"} =>
                    \E j \in 1..(i - 1) : sb_trace[j] = "set_watch"
    /\ (sb_pc = "done" /\ LastObservedInStandby) =>
          \A i \in StandbyRequests :
              \E j \in (i + 1)..Len(sb_trace) :
                  sb_trace[j] \in {"set_standby:off:ok", "set_standby:off:failed"}

\* a run that reported success on a node that was in standby when the test began
C29_Witness ==
    /\ sb_pc = "done"
    /\ sb_outcome = "success"
    /\ StandbyRequests # {}
    /\ sb_trace[2] = "in_standby:on"

(***************************************************************************)
(* Specifications: one per audit; the other audits stay idle               *)
(***************************************************************************)
AuditListInit == AL_Init /\ DA_Idle /\ LA_Idle /\ PA_Idle /\ PT_Idle /\ RS_Idle /\ CB_Idle /\ CS_Idle /\ FA_Idle /\ EN_Idle /\ RR_Idle /\ SB_Idle

SpecAuditList == AuditListInit /\ [][AL_Next]_vars

DiskInit == AL_Idle /\ DA_Init /\ LA_Idle /\ PA_Idle /\ PT_Idle /\ RS_Idle /\ CB_Idle /\ CS_Idle /\ FA_Idle /\ EN_Idle /\ RR_Idle /\ SB_Idle

SpecDisk == DiskInit /\ [][DA_Next]_vars

LogInit == AL_Idle /\ DA_Idle /\ LA_Init /\ PA_Idle /\ PT_Idle /\ RS_Idle /\ CB_Idle /\ CS_Idle /\ FA_Idle /\ EN_Idle /\ RR_Idle /\ SB_Idle

SpecLog == LogInit /\ [][LA_Next]_vars

\* no rsh, watch wait or sleep of an invocation blocks forever
SpecLogFair == LogInit /\ [][LA_Next]_vars /\ WF_vars(LA_Running)

PartitionInit == AL_Idle /\ DA_Idle /\ LA_Idle /\ PA_Init /\ PT_Idle /\ RS_Idle /\ CB_Idle /\ CS_Idle /\ FA_Idle /\ EN_Idle /\ RR_Idle /\ SB_Idle

SpecPartition == PartitionInit /\ [][PA_Next]_vars

PartitionCallInit == AL_Idle /\ DA_Idle /\ LA_Idle /\ PA_Init /\ PT_Init /\ RS_Idle /\ CB_Idle /\ CS_Idle /\ FA_Idle /\ EN_Idle /\ RR_Idle /\ SB_Idle

SpecPartitionCall == PartitionCallInit /\ [][PT_Next]_vars

PrimitiveInit == AL_Idle /\ DA_Idle /\ LA_Idle /\ PA_Expecting /\ PT_Idle /\ PR_Init /\ CB_Idle /\ CS_Idle /\ FA_Idle /\ EN_Idle /\ RR_Idle /\ SB_Idle

SpecPrimitive == PrimitiveInit /\ [][PR_Next]_vars

GroupInit == AL_Idle /\ DA_Idle /\ LA_Idle /\ PA_ExpectingSame /\ PT_Idle /\ GR_Init /\ CB_Idle /\ CS_Idle /\ FA_Idle /\ EN_Idle /\ RR_Idle /\ SB_Idle

SpecGroup == GroupInit /\ [][GR_Next]_vars

ColocationInit == AL_Idle /\ DA_Idle /\ LA_Idle /\ PA_ExpectingSame /\ PT_Idle /\ CO_Init /\ CB_Idle /\ CS_Idle /\ FA_Idle /\ EN_Idle /\ RR_Idle /\ SB_Idle

SpecColocation == ColocationInit /\ [][CO_Next]_vars

CIBInit == AL_Idle /\ DA_Idle /\ LA_Idle /\ PA_Idle /\ PT_Idle /\ RS_Idle /\ CB_Init /\ CS_Idle /\ FA_Idle /\ EN_Idle /\ RR_Idle /\ SB_Idle

SpecCIB == CIBInit /\ [][CB_Next]_vars

ControllerStateInit ==
    AL_Idle /\ DA_Idle /\ LA_Idle /\ PA_Expecting /\ PT_Idle /\ RS_Idle /\ CB_Idle /\ CS_Idle /\ FA_Idle /\ EN_Idle /\ RR_Idle /\ SB_Idle

SpecControllerState == ControllerStateInit /\ [][CS_Next]_vars

FileInit ==
    AL_Idle /\ DA_Idle /\ LA_Idle /\ PA_Expecting /\ PT_Idle /\ RS_Idle /\ CB_Idle /\ CS_Idle /\ FA_Init /\ EN_Idle /\ RR_Idle /\ SB_Idle

SpecFile == FileInit /\ [][FA_Next]_vars

ApplicableInit ==
    EN_Init /\ AL_Configured /\ DA_Idle /\ LA_Idle /\ PA_Idle /\ PT_Idle /\ RS_Idle /\ CB_Idle /\ CS_Idle /\ FA_Idle /\ RR_Idle /\ SB_Idle

SpecApplicable == ApplicableInit /\ [][AL_Next]_vars

PartitionStateInit ==
    AL_Idle /\ DA_Idle /\ LA_Idle /\ PA_InitState /\ PT_Init /\ RS_Idle /\ CB_Idle /\ CS_Idle /\ FA_Idle /\ EN_Idle /\ RR_Idle /\ SB_Idle

SpecPartitionState == PartitionStateInit /\ [][PT_Next]_vars

ResourceRecoverInit ==
    AL_Idle /\ DA_Idle /\ LA_Idle /\ PA_Idle /\ PT_Idle /\ RS_Idle /\ CB_Idle /\ CS_Idle
    /\ FA_Idle /\ EN_Idle /\ RR_Init /\ SB_Idle

SpecResourceRecover == ResourceRecoverInit /\ [][RR_Next]_vars

StandbyInit ==
    AL_Idle /\ DA_Idle /\ LA_Idle /\ PA_Idle /\ PT_Idle /\ RS_Idle /\ CB_Idle /\ CS_Idle
    /\ FA_Idle /\ EN_Idle /\ RR_Idle /\ SB_Init

SpecStandby == StandbyInit /\ [][SB_Next]_vars

====
